---- MODULE Spec2Model ----
(***************************************************************************)
(* A model of the Flan runtime (bichanna/flan): the two-generation         *)
(* mark-and-sweep collector of src/src/gc.cpp (class GC of                 *)
(* src/include/gc.hpp) and the interpreter loop of src/src/vm.cpp.         *)
(*                                                                         *)
(* Heap objects are identified by small integers (their addresses).  A     *)
(* Value is a record [t, v]: t is the alternative the std::variant holds   *)
(* ("empty", "int", "bool", "obj") and v its payload (an object id for     *)
(* "obj").                                                                 *)
(***************************************************************************)
EXTENDS Integers, Sequences, FiniteSets, TLC

\* Bounds of the model.
\* MaxObjs: addresses the allocator hands out in one run.
MaxObjs == 3
\* MaxStack: values the mutator keeps on the value stack.
MaxStack == 2
\* MaxElems: elements given to one createList / createTable / createTuple /
\* createClosure call.
MaxElems == 1
\* The collection thresholds of gc.hpp:139-140, counted in units of the
\* smallest object instead of bytes (2048 * 2048 * 2 and 2048 * 2048 * 16
\* there).
maxNurserySize == 1
maxRetirementHomeSize == 4

\* std::size_t arithmetic wraps; the modulus stands for 2^64 (TLC's integers
\* are 32 bits wide, and every comparison of the model is against a
\* threshold far below it).
SizeModulus == 2 ^ 30

\* The records of VM::errorInfoList when the loop of VM::run is entered
\* (the indices 0 .. ErrorInfoLength - 1 are the ones errorInfoList.at()
\* accepts).
ErrorInfoLength == 1

\* What std::cerr holds of throwError: the record whose line was written
\* (NoLine when none was) and the message.
NoLine == 0 - 1

NoDiagnostic == [line |-> NoLine, msg |-> ""]

\* The std::string of n characters c.
chars(n, c) == IF n = 0 THEN <<0, 0>> ELSE <<n, c>>

\* An error-info table of ErrorInfoLength records: record i is line i + 1.
ErrorInfoTable ==
  [i \in 1..ErrorInfoLength |-> [line |-> i, lineText |-> chars(0, 0)]]

VARIABLES
  stack,               \* std::vector<Value> of Stack (the GC's root set)
  kind,                \* object id -> dynamic type, "none" when not allocated
  elems,               \* object id -> the Values / Object pointers it holds
  marked,              \* object id -> Object::marked
  freed,               \* ids of objects that were deleted (dangling addresses)
  nursery,             \* GC::nursery, front first
  retirementHome,      \* GC::retirementHome, front first
  nurseryHeap,         \* GC::nurseryHeap
  retirementHomeHeap,  \* GC::retirementHomeHeap
  crashed,             \* the process died in undefined behaviour
  ran,                 \* the collections the last operation ran
  buffer,              \* VM::buffer, the bytes of the image
  bufferPtr,           \* bufferPtr of VM::run, as an offset into buffer
  status,              \* where VM::run is: "running", "halted" (quitRun),
                       \* "exited" (throwError), "undefined" (it executed
                       \* undefined behaviour), "no image" (no VM)
  callframes,          \* VM::callframes: CallFrames [retAddr, prevFrom]
  from,                \* Stack::from, the frame base
  arity,               \* object id -> Function::arity
  value,               \* object id -> String::value / Atom::value, or the
                       \* keys of Table::hashMap in the order of elems
  globals,             \* VM::globals: name -> Value
  diagnostic,          \* what throwError wrote to std::cerr
  errorInfoList,       \* VM::errorInfoList: ErrorInfos [line, lineText]
  gc,                  \* GC of gc.h: [nursery_list, nursing_home_list], the
                       \* objects of the nodes, head first
  current_node,        \* current_node of free_gc: the object of the node it
                       \* points to, or NULL
  freeCalls,           \* object id -> the number of times free_gc freed it
  pc,                  \* where the C code is: "none" (not running),
                       \* "free_gc" (before the call), "while" (at the loop
                       \* test), "ready" (between two calls on the HM),
                       \* "returned", "undefined"
  hm,                  \* HM of hashmap.h: [entries, len, cap]
  freedKeys,           \* the slots of hm.entries whose key string was freed
  ret                  \* the last call on the HM: [op, key, value, ret]

portVars == <<gc, current_node, freeCalls, pc, hm, freedKeys, ret>>

cppVars == <<stack, kind, elems, marked, freed, nursery, retirementHome,
             nurseryHeap, retirementHomeHeap, crashed, ran, buffer, bufferPtr,
             status, callframes, from, arity, value, globals, diagnostic,
             errorInfoList>>

vars == <<cppVars, portVars>>

callVars == <<callframes, from, arity>>

dataVars == <<value, globals, diagnostic, errorInfoList, portVars>>

vmVars == <<buffer, bufferPtr, status, callVars, dataVars>>

ObjIds == 1..MaxObjs

\* A null pointer.
NULL == 0

\* The C port (gc.c, hashmap.c) is not running.
NoPort ==
  /\ gc = [nursery_list |-> <<>>, nursing_home_list |-> <<>>]
  /\ current_node = NULL
  /\ freeCalls = [o \in ObjIds |-> 0]
  /\ pc = "none"
  /\ hm = [entries |-> <<>>, len |-> 0, cap |-> 0]
  /\ freedKeys = {}
  /\ ret = <<>>

Kinds == {"String", "Atom", "List", "Table", "Tuple", "Function", "Upvalue",
          "Closure"}

EmptyV == [t |-> "empty", v |-> 0]
IntV(n) == [t |-> "int", v |-> n]
BoolV(b) == [t |-> "bool", v |-> IF b THEN 1 ELSE 0]
ObjV(o) == [t |-> "obj", v |-> o]

\* std::holds_alternative<Object *>(value.value)
holdsObject(val) == val.t = "obj"

Range(s) == {s[i] : i \in DOMAIN s}

\* The objects a sequence of Values points to.
ObjectsOf(vals) == {vals[i].v : i \in {j \in DOMAIN vals : holdsObject(vals[j])}}

\* Object::byteSize and its overrides (gc.hpp:31-134): sizeof of the dynamic
\* type, in units: a Table (it embeds a std::unordered_map) is the largest
\* and counts 2, every other type 1.
byteSize(h, o) == IF h.kind[o] = "Table" THEN 2 ELSE 1

\* The collector's fields, the heap and the value stack as one record, the
\* value the operations transform.  ub: undefined behaviour was executed;
\* ran: the collections that ran ("none", "nursery", "both").
Heap == [stack |-> stack, nursery |-> nursery, retirementHome |-> retirementHome,
         nurseryHeap |-> nurseryHeap, retirementHomeHeap |-> retirementHomeHeap,
         marked |-> marked, freed |-> freed, elems |-> elems, kind |-> kind,
         ub |-> FALSE, ran |-> "none"]

\* std::forward_list::remove(value): erases every node holding value.
listRemove(list, o) == SelectSeq(list, LAMBDA x : x # o)

addToNursery(h, o) ==
  [h EXCEPT !.nursery = <<o>> \o @,
            !.nurseryHeap = (@ + byteSize(h, o)) % SizeModulus]

addToRetirementHome(h, o) ==
  [h EXCEPT !.retirementHome = <<o>> \o @,
            !.retirementHomeHeap = (@ + byteSize(h, o)) % SizeModulus]

removeFromNursery(h, o) ==
  [h EXCEPT !.nursery = listRemove(@, o),
            !.nurseryHeap = (@ - byteSize(h, o)) % SizeModulus]

removeFromRetirementHome(h, o) ==
  [h EXCEPT !.retirementHome = listRemove(@, o),
            !.retirementHomeHeap = (@ - byteSize(h, o)) % SizeModulus]

\* `delete obj`: the virtual destructor.  ~Closure also deletes its Function
\* (gc.hpp:127-130), an object that createFunction registered on its own.
\* The payload of a deleted object is released.  Deleting an object twice is
\* undefined behaviour.
destroyed(h, o) ==
  IF h.kind[o] = "Closure" /\ Len(h.elems[o]) > 0 THEN {o, h.elems[o][1].v} ELSE {o}

deleteObject(h, o) ==
  LET dead == destroyed(h, o) IN
  [h EXCEPT !.freed = @ \cup dead,
            !.marked = [x \in ObjIds |-> IF x \in dead THEN FALSE ELSE @[x]],
            !.elems = [x \in ObjIds |-> IF x \in dead THEN <<>> ELSE @[x]],
            !.ub = @ \/ (dead \cap h.freed # {})]

\* X::mark of gc.cpp:12-15 and 142-183: return when already marked, else set
\* the flag and mark what the object holds (List elements, Table values,
\* Tuple values, the Upvalue's cell, the Closure's function and upvalues).
RECURSIVE mark(_, _, _)
RECURSIVE markValues(_, _, _)
mark(m, es, o) ==
  IF m[o] THEN m
  ELSE LET m1 == [m EXCEPT ![o] = TRUE] IN
       IF kind[o] \in {"List", "Table", "Tuple", "Upvalue", "Closure"}
       THEN markValues(m1, es, es[o])
       ELSE m1

markValues(m, es, vals) ==
  IF vals = <<>> THEN m
  ELSE markValues(IF holdsObject(Head(vals)) THEN mark(m, es, Head(vals).v)
                  ELSE m,
                  es, Tail(vals))

\* The mark loop of GCNursery (gc.cpp:26-29): mark every object the stack
\* holds.  Calling mark() through a dangling pointer is undefined behaviour.
markAll(h) ==
  LET m2 == markValues(h.marked, h.elems, h.stack)
      touched == ObjectsOf(h.stack) \cup {o \in ObjIds : m2[o] /\ ~h.marked[o]}
  IN [h EXCEPT !.marked = m2, !.ub = @ \/ (touched \cap h.freed # {})]

\* `obj->marked` as a sweep reads it; the flag of a deleted object is read
\* from freed memory (undefined behaviour) and can have either value.
readMarked(h, obj) == IF obj \in h.freed THEN BOOLEAN ELSE {h.marked[obj]}

\* The sweep loop of GCNursery (gc.cpp:32-40) from the node holding
\* Head(rest).  The body erases the node the range-for iterator stands on
\* (removeFromNursery calls forward_list::remove), so the ++ that follows
\* reads the freed node's next pointer: undefined behaviour.  What it reads
\* is the stale successor, or null (the loop ends), or, when the body has
\* just pushed a node on the retirement home and the allocator reused the
\* freed node for it, that node's successor: the former head of the
\* retirement list; or an invalid address (the process crashes).  A node
\* that was not erased (an object of the retirement list) is left normally.
RECURSIVE sweepNursery(_, _)
sweepNursery(h, rest) ==
  IF rest = <<>> THEN {h}
  ELSE LET obj == Head(rest)
           erased == obj \in Range(h.nursery)
           h1 == [removeFromNursery(h, obj) EXCEPT
                    !.ub = @ \/ erased \/ obj \in h.freed]
           body(promote) ==
             IF ~promote
             THEN deleteObject(h1, obj)
             ELSE addToRetirementHome([h1 EXCEPT !.marked[obj] = FALSE], obj)
           nexts(promote) ==
             IF ~erased THEN {Tail(rest)}
             ELSE {Tail(rest), <<>>} \cup
                  (IF promote THEN {h1.retirementHome} ELSE {})
       IN UNION {UNION {sweepNursery(body(promote), nx) : nx \in nexts(promote)} :
                 promote \in readMarked(h, obj)}

GCNursery(h) ==
  sweepNursery([markAll(h) EXCEPT !.ran = "nursery"], h.nursery)

\* GCRetirementHome (gc.cpp:43-54): no mark phase; the sweep erases the node
\* of an unmarked object while the iterator stands on it (undefined
\* behaviour as above; nothing is allocated in this loop).
RECURSIVE sweepRetirementHome(_, _)
sweepRetirementHome(h, rest) ==
  IF rest = <<>> THEN {h}
  ELSE LET obj == Head(rest)
           h0 == [h EXCEPT !.ub = @ \/ obj \in h.freed]
           body(keepIt) ==
             IF ~keepIt
             THEN [deleteObject(removeFromRetirementHome(h0, obj), obj)
                     EXCEPT !.ub = TRUE]
             ELSE [h0 EXCEPT !.marked[obj] = FALSE]
           nexts(keepIt) == IF keepIt THEN {Tail(rest)} ELSE {Tail(rest), <<>>}
       IN UNION {UNION {sweepRetirementHome(body(keepIt), nx) : nx \in nexts(keepIt)} :
                 keepIt \in readMarked(h, obj)}

GCRetirementHome(h) ==
  sweepRetirementHome([h EXCEPT !.ran = "both"], h.retirementHome)

\* GC::mayGC (gc.cpp:17-23): the set of heaps the call can end in.
mayGC(h) ==
  IF h.nurseryHeap >= maxNurserySize
  THEN UNION {IF h1.retirementHomeHeap >= maxRetirementHomeSize
              THEN GCRetirementHome(h1)
              ELSE {h1} : h1 \in GCNursery(h)}
  ELSE {h}

\* Install a heap record as the next state.  A call that executed undefined
\* behaviour may also have crashed the process; the memory of a dead process
\* is gone, so every crash ends in the same state.
Install(h) ==
  \E crash \in (IF h.ub THEN BOOLEAN ELSE {FALSE}) :
    IF crash
    THEN /\ crashed' = TRUE
         /\ ran' = "none"
         /\ stack' = <<>>
         /\ kind' = [o \in ObjIds |-> "none"]
         /\ elems' = [o \in ObjIds |-> <<>>]
         /\ marked' = [o \in ObjIds |-> FALSE]
         /\ freed' = {}
         /\ nursery' = <<>>
         /\ retirementHome' = <<>>
         /\ nurseryHeap' = 0
         /\ retirementHomeHeap' = 0
    ELSE /\ crashed' = FALSE
         /\ ran' = h.ran
         /\ stack' = h.stack
         /\ kind' = h.kind
         /\ nursery' = h.nursery
         /\ retirementHome' = h.retirementHome
         /\ nurseryHeap' = h.nurseryHeap
         /\ retirementHomeHeap' = h.retirementHomeHeap
         /\ marked' = h.marked
         /\ freed' = h.freed
         /\ elems' = h.elems

\* ------------------------------------------------------------ allocation

\* The addresses operator new has not handed out yet (an address is not
\* handed out twice: a dangling pointer stays recognisable).
Available == {o \in ObjIds : kind[o] = "none"}

NewObj == CHOOSE o \in Available : \A p \in Available : o <= p

\* A createX that did the threshold check first, as a variant of allocate.
allocateAfterMayGC(h, o, k, es) ==
  {addToNursery([h1 EXCEPT !.elems[o] = es, !.kind[o] = k], o) :
     h1 \in mayGC(h)}

\* The body every GC::createX shares (gc.cpp:84-140): `new X(...)`, then
\* addToNursery; no createX calls mayGC.  The set of heaps the call can end
\* in.
allocate(h, o, k, es) ==
  {addToNursery([h EXCEPT !.elems[o] = es, !.kind[o] = k], o)}

push(h, val) == [h EXCEPT !.stack = Append(@, val)]

\* A createX call of the mutator, which pushes the returned Value or drops
\* it.
create(k, es, keep) ==
  /\ ~crashed
  /\ Available # {}
  /\ keep => Len(stack) < MaxStack
  /\ \E h \in allocate(Heap, NewObj, k, es) :
       Install(IF keep THEN push(h, ObjV(NewObj)) ELSE h)
  /\ UNCHANGED vmVars

\* The Values a caller can pass: those it holds on the stack, and an
\* immediate Integer.
Args == UNION {[1..n -> Range(stack) \cup {IntV(0)}] : n \in 0..MaxElems}

StackObjs(k) == {o \in ObjectsOf(stack) : kind[o] = k /\ o \notin freed}

createString == \E keep \in BOOLEAN : create("String", <<>>, keep)

createAtom == \E keep \in BOOLEAN : create("Atom", <<>>, keep)

createList ==
  \E keep \in BOOLEAN, es \in Args : create("List", es, keep)

createTable ==
  \E keep \in BOOLEAN, es \in Args : create("Table", es, keep)

createTuple ==
  \E keep \in BOOLEAN, es \in Args : create("Tuple", es, keep)

createFunction ==
  \E keep \in BOOLEAN : create("Function", <<>>, keep)

createUpvalue ==
  \E keep \in BOOLEAN, val \in Range(stack) :
    create("Upvalue", <<val>>, keep)

\* createClosure(function, upvalues, upvalueCount): the Closure holds the
\* Function pointer first, then its Upvalue pointers.
createClosure ==
  \E keep \in BOOLEAN, f \in StackObjs("Function"),
     ups \in UNION {[1..n -> StackObjs("Upvalue")] : n \in 0..MaxElems} :
    create("Closure", <<ObjV(f)>> \o [i \in DOMAIN ups |-> ObjV(ups[i])],
           keep)

\* ------------------------------------------------------------ the mutator

\* The mutator drops the Value on top of the stack (Stack::pop).
pop ==
  /\ ~crashed
  /\ Len(stack) > 0
  /\ stack' = SubSeq(stack, 1, Len(stack) - 1)
  /\ ran' = "none"
  /\ UNCHANGED <<kind, elems, marked, freed, nursery, retirementHome,
                 nurseryHeap, retirementHomeHeap, crashed>>
  /\ UNCHANGED vmVars

\* A holder of a Table stores a Value it holds in it (hashMap is a public
\* field of Table; vm.cpp:433-434 is such a store); key slot 1.
storeMember ==
  /\ ~crashed
  /\ \E t \in StackObjs("Table"), val \in Range(stack) :
       elems' = [elems EXCEPT ![t] = <<val>>]
  /\ ran' = "none"
  /\ UNCHANGED <<stack, kind, marked, freed, nursery, retirementHome,
                 nurseryHeap, retirementHomeHeap, crashed>>
  /\ UNCHANGED vmVars

\* A call of GC::mayGC, the collector's entry point.
collect ==
  /\ ~crashed
  /\ \E h \in mayGC(Heap) : Install(h)
  /\ UNCHANGED vmVars

NoVM ==
  /\ stack = <<>>
  /\ kind = [o \in ObjIds |-> "none"]
  /\ elems = [o \in ObjIds |-> <<>>]
  /\ marked = [o \in ObjIds |-> FALSE]
  /\ freed = {}
  /\ nursery = <<>>
  /\ retirementHome = <<>>
  /\ nurseryHeap = 0
  /\ retirementHomeHeap = 0
  /\ crashed = FALSE
  /\ ran = "none"
  /\ buffer = <<>>
  /\ bufferPtr = 0
  /\ status = "no image"
  /\ callframes = <<>>
  /\ from = 0
  /\ arity = [o \in ObjIds |-> 0]
  /\ value = [o \in ObjIds |-> chars(0, 0)]
  /\ globals = <<>>
  /\ diagnostic = NoDiagnostic
  /\ errorInfoList = <<>>

Init == NoVM /\ NoPort

Next ==
  \/ createString
  \/ createAtom
  \/ createList
  \/ createTable
  \/ createTuple
  \/ createFunction
  \/ createUpvalue
  \/ createClosure
  \/ pop
  \/ storeMember
  \/ collect

Spec == Init /\ [][Next]_vars

\* ------------------------------------------------------------ the interpreter

\* enum class InstructionType (vm.hpp:107-155).
InstructionType ==
  [Load0 |-> 0, Load1 |-> 1, Load2 |-> 2, Load3 |-> 3, Load4 |-> 4,
   Load5 |-> 5, Load |-> 6, Push |-> 7, Pop |-> 8, PopN |-> 9, Nip |-> 10,
   NipN |-> 11, Dup |-> 12, Add |-> 13, Sub |-> 14, Mul |-> 15, Div |-> 16,
   Mod |-> 17, Eq |-> 18, NEq |-> 19, LT |-> 20, LTE |-> 21, GT |-> 22,
   GTE |-> 23, And |-> 24, Or |-> 25, Not |-> 26, Negate |-> 27, Jmp |-> 28,
   Jz |-> 29, Jnz |-> 30, InitList |-> 31, InitTable |-> 32, InitTup |-> 33,
   IdxListOrTup |-> 34, SetList |-> 35, GetMember |-> 36, SetMember |-> 37,
   DefGlobal |-> 38, GetGlobal |-> 39, SetGlobal |-> 40, GetLocal |-> 41,
   SetLocal |-> 42, CallFn |-> 43, RetFn |-> 44, EndFn |-> 45, Halt |-> 255]

\* MaxInstrs: opcode/operand byte pairs of an image before its Halt.
MaxInstrs == 3

\* The opcode bytes Init draws (EndFn has no case in the switch), and the
\* byte it puts after each: a Value tag (Integer, Bool, String) after Load,
\* a length after InitList, InitTable and InitTup, and 0 after the others
\* (an error-info index for Add, a byte no handler reads for the rest).
OpcodeBytes ==
  {InstructionType.Load0, InstructionType.Load3, InstructionType.Load,
   InstructionType.Pop, InstructionType.Dup, InstructionType.Add,
   InstructionType.Jz, InstructionType.InitList, InstructionType.InitTable,
   InstructionType.InitTup, InstructionType.EndFn}

OperandBytes(op) ==
  IF op = InstructionType.Load THEN {0, 2, 4}
  ELSE IF op \in {InstructionType.InitList, InstructionType.InitTable,
                  InstructionType.InitTup}
       THEN {0, 1, 2}
       ELSE {0}

\* The image "Load3, Load2, Add(err=0), Halt".
ArithmeticImage ==
  <<InstructionType.Load3, InstructionType.Load2, InstructionType.Add, 0, 0,
    InstructionType.Halt>>

RECURSIVE BitOr(_, _)
BitOr(a, b) ==
  IF a = 0 THEN b
  ELSE IF b = 0 THEN a
  ELSE (IF a % 2 = 1 \/ b % 2 = 1 THEN 1 ELSE 0) + 2 * BitOr(a \div 2, b \div 2)

\* The read functions take bufferPtr by value: the `bufferPtr++` of
\* readUInt8 moves the callee's copy, and every read of one instruction
\* returns the byte at the same offset p.
readUInt8(p) == buffer[p + 1]

readUInt16(p) ==
  LET low_byte == readUInt8(p)
      high_byte == readUInt8(p)
  IN BitOr(low_byte, high_byte * 256)

readUInt32(p) ==
  LET byte1 == readUInt8(p)
      byte2 == readUInt8(p)
      byte3 == readUInt8(p)
      byte4 == readUInt8(p)
  IN BitOr(BitOr(byte1, byte2), BitOr(byte3, byte4))

readInteger(p) ==
  LET b == readUInt8(p)
  IN BitOr(BitOr(b, b * 256), BitOr(b * 65536, b * 16777216))

\* An image: byte pairs, then Halt.  Any file is an image; the Integer
\* constants the images of the model hold fit TLC's integers, so that a Load
\* of an Integer is not the last pair (its payload would be the Halt byte).
Pairs == UNION {{<<op, b>> : b \in OperandBytes(op)} : op \in OpcodeBytes}

RECURSIVE flatten(_)
flatten(ps) == IF ps = <<>> THEN <<>> ELSE Head(ps) \o flatten(Tail(ps))

Images ==
  {ArithmeticImage} \cup
  {flatten(ps) \o <<InstructionType.Halt>> :
     ps \in {q \in UNION {[1..n -> Pairs] : n \in 0..MaxInstrs} :
               Len(q) = 0 \/ q[Len(q)] # <<InstructionType.Load, 0>>}}

\* typeid(obj) of an expression of static type Object * is the type_info of
\* the pointer type, whatever the object is.
typeid(obj) == "Object *"

\* The end of one iteration of the loop of VM::run: the case has done its
\* `bufferPtr++`, the reads have moved copies only, and line 538 does the
\* second `bufferPtr++`.
Continue(h) ==
  /\ Install(h)
  /\ bufferPtr' = bufferPtr + 2
  /\ UNCHANGED <<buffer, status, callVars, dataVars>>

\* VM::throwError(errInfoIdx, msg) if std::exit(1) came back: the message
\* is written and the loop goes on (the statements after the calls of
\* throwError, "Won't run" in the source, would run).
throwErrorReturns(h, errInfoIdx, msg) ==
  /\ Install(h)
  /\ bufferPtr' = bufferPtr + 2
  /\ diagnostic' = IF errInfoIdx < Len(errorInfoList)
                   THEN [line |-> errorInfoList[errInfoIdx + 1].line,
                         msg |-> msg]
                   ELSE [line |-> NoLine, msg |-> "std::out_of_range"]
  /\ UNCHANGED <<buffer, status, callVars, value, globals, errorInfoList,
                 portVars>>

\* VM::throwError(errInfoIdx, msg) (vm.cpp:1181-1198): the line of record
\* errInfoIdx of errorInfoList and msg go to std::cerr, then std::exit(1);
\* errorInfoList.at() throws std::out_of_range for an index that is not in
\* the table, nothing catches it, and std::terminate ends the process
\* before msg is written.  The messages of the model are the fixed part of
\* the text the code writes.
throwError(h, errInfoIdx, msg) ==
  /\ Install(h)
  /\ status' = "exited"
  /\ diagnostic' = IF errInfoIdx < Len(errorInfoList)
                   THEN [line |-> errorInfoList[errInfoIdx + 1].line,
                         msg |-> msg]
                   ELSE [line |-> NoLine, msg |-> "std::out_of_range"]
  /\ UNCHANGED <<buffer, bufferPtr, callVars, value, globals,
                 errorInfoList, portVars>>

\* VM::throwError(msg) (vm.cpp:1200-1205): msg without a line, then
\* std::exit(1).
throwErrorMsg(h, msg) ==
  /\ Install(h)
  /\ status' = "exited"
  /\ diagnostic' = [line |-> NoLine, msg |-> msg]
  /\ UNCHANGED <<buffer, bufferPtr, callVars, value, globals,
                 errorInfoList, portVars>>

\* back() or pop_back() on an empty std::vector: undefined behaviour, after
\* which nothing is known about the run.
Undefined ==
  /\ status' = "undefined"
  /\ UNCHANGED <<stack, kind, elems, marked, freed, nursery, retirementHome,
                 nurseryHeap, retirementHomeHeap, crashed, ran, buffer,
                 bufferPtr, callVars, dataVars>>

Fetch(ops) ==
  /\ status = "running"
  /\ bufferPtr < Len(buffer)
  /\ buffer[bufferPtr + 1] \in ops

\* The loop of VM::run (vm.cpp:81-82) reads `*bufferPtr` with no test of
\* the end of the image: with the pointer past the last byte the read is
\* outside the array.
runPastEnd ==
  /\ status = "running"
  /\ bufferPtr >= Len(buffer)
  /\ Undefined

\* The heap after n calls of VM::pop, and the Values they returned, first
\* popped first.
popN(h, n) == [h EXCEPT !.stack = SubSeq(@, 1, Len(@) - n)]

popped(n) == [i \in 1..n |-> stack[Len(stack) + 1 - i]]

\* case Load0 .. case Load5 (vm.cpp:90-118).
runLoadN ==
  /\ Fetch(InstructionType.Load0 .. InstructionType.Load5)
  /\ Continue(push(Heap, IntV(buffer[bufferPtr + 1] - InstructionType.Load0)))

\* VM::readShortString (vm.cpp:1070-1077), VM::readString
\* (vm.cpp:1139-1146) and VM::readAtom (vm.cpp:1148-1155): the length and
\* every character are read from the byte at p.
readShortString(p) == chars(readUInt8(p), readUInt8(p))

readString(p) == chars(readUInt16(p), readUInt8(p))

readAtom(p) == chars(readUInt8(p), readUInt8(p))

\* A String or Atom constant: GC::createString / GC::createAtom, the push
\* of case Load and the end of the iteration.
loadObject(k, s) ==
  /\ Available # {}
  /\ \E h \in allocate(Heap, NewObj, k, <<>>) :
       Install(push(h, ObjV(NewObj)))
  /\ value' = [value EXCEPT ![NewObj] = s]
  /\ bufferPtr' = bufferPtr + 2
  /\ UNCHANGED <<buffer, status, callVars, globals, diagnostic,
                 errorInfoList, portVars>>

\* case Load (vm.cpp:120-123) with VM::readValue (vm.cpp:1079-1108): the tag
\* is the byte after the opcode, and the payload is read from the byte
\* after the tag.  Float (1) and Function (6) constants are not drawn.
runLoad ==
  /\ Fetch({InstructionType.Load})
  /\ LET type == readUInt8(bufferPtr + 1)
         p == bufferPtr + 2
     IN CASE type = 0 -> Continue(push(Heap, IntV(readInteger(p))))
          [] type = 2 -> Continue(push(Heap, BoolV(readUInt8(p) = 1)))
          [] type = 3 -> Continue(push(Heap, EmptyV))
          [] type = 4 -> loadObject("String", readString(p))
          [] type = 5 -> loadObject("Atom", readAtom(p))
          [] type > 6 -> throwErrorMsg(Heap, "Invalid value type")

\* case Pop (vm.cpp:133-137).
runPop ==
  /\ Fetch({InstructionType.Pop})
  /\ IF Len(stack) < 1 THEN Undefined ELSE Continue(popN(Heap, 1))

\* case Dup (vm.cpp:163-168).
runDup ==
  /\ Fetch({InstructionType.Dup})
  /\ IF Len(stack) < 1 THEN Undefined
     ELSE Continue(push(Heap, stack[Len(stack)]))

\* case Add (vm.cpp:170-173) with VM::performAdd (vm.cpp:577-619), Integer
\* and Object operands (no Float is drawn).
runAdd ==
  /\ Fetch({InstructionType.Add})
  /\ IF Len(stack) < 2 THEN Undefined
     ELSE LET errInfoIdx == readUInt16(bufferPtr + 1)
              right == popped(2)[1]
              left == popped(2)[2]
              h == popN(Heap, 2)
          IN IF holdsObject(left)
             THEN IF /\ typeid(left.v) = "String"
                     /\ holdsObject(right)
                     /\ typeid(right.v) = "String"
                  THEN /\ Available # {}
                       /\ \E h2 \in allocate(h, NewObj, "String", <<>>) :
                            Continue(push(h2, ObjV(NewObj)))
                  ELSE throwError(h, errInfoIdx, "Cannot add")
             ELSE IF left.t = "int" /\ right.t = "int"
                  THEN Continue(push(h, IntV(left.v + right.v)))
                  ELSE throwError(h, errInfoIdx, "Cannot add")

\* case Jz (vm.cpp:261-266): jumpForward (vm.cpp:1066-1068) adds the offset
\* to its own copy of bufferPtr, so that a taken jump goes nowhere.
runJz ==
  /\ Fetch({InstructionType.Jz})
  /\ IF Len(stack) < 1 THEN Undefined
     ELSE LET offset == readUInt32(bufferPtr + 1)
          IN Continue(popN(Heap, 1))

\* case InitList (vm.cpp:275-284): the elements in the order they are popped.
runInitList ==
  /\ Fetch({InstructionType.InitList})
  /\ LET length == readUInt32(bufferPtr + 1)
     IN IF Len(stack) < length THEN Undefined
        ELSE /\ Available # {}
             /\ \E h \in allocate(popN(Heap, length), NewObj, "List",
                                  popped(length)) :
                  Continue(push(h, ObjV(NewObj)))

\* case InitTable (vm.cpp:286-300): readShortString returns the same key
\* for every entry, so the last Value popped is the one the table keeps.
\* value holds the keys of Table::hashMap, elems the Values in that order.
runInitTable ==
  /\ Fetch({InstructionType.InitTable})
  /\ LET length == readUInt32(bufferPtr + 1)
         key == readShortString(bufferPtr + 1)
     IN IF Len(stack) < length THEN Undefined
        ELSE /\ Available # {}
             /\ \E h \in allocate(popN(Heap, length), NewObj, "Table",
                                  IF length = 0 THEN <<>>
                                  ELSE <<popped(length)[length]>>) :
                  Install(push(h, ObjV(NewObj)))
             /\ value' = [value EXCEPT
                            ![NewObj] = IF length = 0 THEN <<>> ELSE <<key>>]
             /\ bufferPtr' = bufferPtr + 2
             /\ UNCHANGED <<buffer, status, callVars, globals, diagnostic,
                 errorInfoList, portVars>>

\* case InitTup (vm.cpp:302-311).
runInitTup ==
  /\ Fetch({InstructionType.InitTup})
  /\ LET length == readUInt32(bufferPtr + 1)
     IN IF Len(stack) < length THEN Undefined
        ELSE /\ Available # {}
             /\ \E h \in allocate(popN(Heap, length), NewObj, "Tuple",
                                  popped(length)) :
                  Continue(push(h, ObjV(NewObj)))

\* case Halt (vm.cpp:524-527).
runHalt ==
  /\ Fetch({InstructionType.Halt})
  /\ bufferPtr' = bufferPtr + 1
  /\ status' = "halted"
  /\ UNCHANGED <<stack, kind, elems, marked, freed, nursery, retirementHome,
                 nurseryHeap, retirementHomeHeap, crashed, ran, buffer,
                 callVars, dataVars>>

\* default (vm.cpp:529-535): a byte no case of the switch names.
runDefault ==
  /\ Fetch(InstructionType.EndFn .. InstructionType.Halt - 1)
  /\ throwErrorMsg(Heap, "Invalid instruction")

\* The loop of VM::run is entered at its head (vm.cpp:81) with an empty
\* stack and an empty heap.
InitVM ==
  /\ stack = <<>>
  /\ kind = [o \in ObjIds |-> "none"]
  /\ elems = [o \in ObjIds |-> <<>>]
  /\ marked = [o \in ObjIds |-> FALSE]
  /\ freed = {}
  /\ nursery = <<>>
  /\ retirementHome = <<>>
  /\ nurseryHeap = 0
  /\ retirementHomeHeap = 0
  /\ crashed = FALSE
  /\ ran = "none"
  /\ buffer \in Images
  /\ bufferPtr = 0
  /\ status = "running"
  /\ callframes = <<>>
  /\ from = 0
  /\ arity = [o \in ObjIds |-> 0]
  /\ value = [o \in ObjIds |-> chars(0, 0)]
  /\ globals = <<>>
  /\ diagnostic = NoDiagnostic
  /\ errorInfoList = ErrorInfoTable
  /\ NoPort

NextVM ==
  \/ runLoadN
  \/ runLoad
  \/ runPop
  \/ runDup
  \/ runAdd
  \/ runJz
  \/ runInitList
  \/ runInitTable
  \/ runInitTup
  \/ runHalt
  \/ runDefault

SpecVM == InitVM /\ [][NextVM]_vars

\* ------------------------------------------------------------ branches

\* Value::truthy (value.cpp:58-71): an Integer other than 0, a Bool that is
\* true, and every Value that is neither Integer, Float nor Bool.
truthy(val) ==
  IF val.t = "int" THEN val.v # 0
  ELSE IF val.t = "bool" THEN val.v = 1
  ELSE TRUE

\* VM::jumpForward (vm.cpp:1066-1068): the caller's pointer after the call.
\* bufferPtr is a parameter passed by value, and `bufferPtr += offset`
\* moves the copy.
jumpForward(p, offset) == p

\* The end of one iteration of the loop when the case leaves the pointer
\* at p: line 538 does `bufferPtr++`.
ContinueAt(h, p) ==
  /\ Install(h)
  /\ bufferPtr' = p + 1
  /\ UNCHANGED <<buffer, status, callVars, dataVars>>

\* case Jmp (vm.cpp:255-259): nothing is popped.
runJmp ==
  /\ Fetch({InstructionType.Jmp})
  /\ LET p == bufferPtr + 1
     IN ContinueAt(Heap, jumpForward(p, readUInt32(p)))

\* case Jnz (vm.cpp:268-273).
runJnz ==
  /\ Fetch({InstructionType.Jnz})
  /\ IF Len(stack) < 1 THEN Undefined
     ELSE LET p == bufferPtr + 1
              offset == readUInt32(p)
          IN ContinueAt(popN(Heap, 1),
                        IF truthy(popped(1)[1]) THEN jumpForward(p, offset)
                        ELSE p)

\* The images of n byte pairs of P at most, each followed by Halt.
Programs(P, n) ==
  {flatten(ps) \o <<InstructionType.Halt>> :
     ps \in UNION {[1..k -> P] : k \in 0..n}}

\* The loop of VM::run entered at its head (vm.cpp:81) with one of the
\* images I, an empty stack and an empty heap.
LoopHead(I) ==
  /\ stack = <<>>
  /\ kind = [o \in ObjIds |-> "none"]
  /\ elems = [o \in ObjIds |-> <<>>]
  /\ marked = [o \in ObjIds |-> FALSE]
  /\ freed = {}
  /\ nursery = <<>>
  /\ retirementHome = <<>>
  /\ nurseryHeap = 0
  /\ retirementHomeHeap = 0
  /\ crashed = FALSE
  /\ ran = "none"
  /\ buffer \in I
  /\ bufferPtr = 0
  /\ status = "running"
  /\ callframes = <<>>
  /\ from = 0
  /\ arity = [o \in ObjIds |-> 0]
  /\ value = [o \in ObjIds |-> chars(0, 0)]
  /\ globals = <<>>
  /\ diagnostic = NoDiagnostic
  /\ errorInfoList = ErrorInfoTable
  /\ NoPort

\* The byte pairs of the images with branches: Integer constants that are
\* falsey (0) and truthy (3), and jumps with offsets 0 and 2.
BranchPairs ==
  {<<InstructionType.Load0, 0>>, <<InstructionType.Load3, 0>>,
   <<InstructionType.Jmp, 0>>, <<InstructionType.Jmp, 2>>,
   <<InstructionType.Jz, 0>>, <<InstructionType.Jz, 2>>,
   <<InstructionType.Jnz, 0>>, <<InstructionType.Jnz, 2>>}

InitBranch == LoopHead(Programs(BranchPairs, MaxInstrs))

NextBranch ==
  \/ runLoadN
  \/ runJmp
  \/ runJz
  \/ runJnz
  \/ runHalt

SpecBranch == InitBranch /\ [][NextBranch]_vars

\* ------------------------------------------------------------ comparisons

\* What a performX call ends in: a Value it returns, or VM::throwError.
returns(val) == [thrown |-> FALSE, val |-> val]

Thrown == [thrown |-> TRUE, val |-> EmptyV]

\* VM::performEq (vm.cpp:760-819), for the Values of the model (no Float).
\* The typeid tests on leftObj compare the type of a pointer with String
\* and with Atom; the Strings and Atoms of the model have no contents, and
\* those of one object are equal.
performEq(left, right) ==
  IF left.t = "empty" THEN returns(BoolV(TRUE))
  ELSE IF left.t = "int" /\ right.t = "int"
  THEN returns(BoolV(left.v = right.v))
  ELSE IF left.t = "bool" /\ right.t = "bool"
  THEN returns(BoolV(left.v = right.v))
  ELSE IF /\ holdsObject(left)
          /\ typeid(left.v) \in {"String", "Atom"}
          /\ holdsObject(right)
          /\ typeid(right.v) = typeid(left.v)
  THEN returns(BoolV(left.v = right.v))
  ELSE Thrown

\* VM::performNEq (vm.cpp:821-823).
performNEq(left, right) ==
  LET eq == performEq(left, right)
  IN IF eq.thrown THEN Thrown ELSE returns(BoolV(eq.val.v # 1))

\* VM::performLT, performLTE, performGT and performGTE (vm.cpp:825-1007)
\* differ in the operator they apply to two Integers (to two Strings, when
\* the typeid test on leftObj lets one through).
ordering(holds, left, right) ==
  IF left.t = "empty" THEN returns(BoolV(TRUE))
  ELSE IF left.t = "int" /\ right.t = "int" THEN returns(BoolV(holds))
  ELSE IF /\ holdsObject(left)
          /\ typeid(left.v) = "String"
          /\ holdsObject(right)
          /\ typeid(right.v) = "String"
  THEN returns(BoolV(holds))
  ELSE Thrown

performLT(left, right) == ordering(left.v < right.v, left, right)

performLTE(left, right) == ordering(left.v <= right.v, left, right)

performGT(left, right) == ordering(left.v > right.v, left, right)

performGTE(left, right) == ordering(left.v >= right.v, left, right)

\* The performX call of each comparison case of VM::run (vm.cpp:195-223).
perform(instType, left, right) ==
  CASE instType = InstructionType.Eq -> performEq(left, right)
    [] instType = InstructionType.NEq -> performNEq(left, right)
    [] instType = InstructionType.LT -> performLT(left, right)
    [] instType = InstructionType.LTE -> performLTE(left, right)
    [] instType = InstructionType.GT -> performLTE(left, right)
    [] instType = InstructionType.GTE -> performGTE(left, right)

\* One comparison case: the performX call pops right, then left, and the
\* case pushes what it returns.
compare(instType) ==
  IF Len(stack) < 2 THEN Undefined
  ELSE LET errInfoIdx == readUInt16(bufferPtr + 1)
           right == popped(2)[1]
           left == popped(2)[2]
           result == perform(instType, left, right)
       IN IF result.thrown
          THEN throwError(popN(Heap, 2), errInfoIdx, "Cannot compare")
          ELSE Continue(push(popN(Heap, 2), result.val))

runEq ==
  /\ Fetch({InstructionType.Eq})
  /\ compare(InstructionType.Eq)

runNEq ==
  /\ Fetch({InstructionType.NEq})
  /\ compare(InstructionType.NEq)

runLT ==
  /\ Fetch({InstructionType.LT})
  /\ compare(InstructionType.LT)

runLTE ==
  /\ Fetch({InstructionType.LTE})
  /\ compare(InstructionType.LTE)

runGT ==
  /\ Fetch({InstructionType.GT})
  /\ compare(InstructionType.GT)

runGTE ==
  /\ Fetch({InstructionType.GTE})
  /\ compare(InstructionType.GTE)

\* The byte pairs of the images with comparisons: the Integers 0 and 3, an
\* Empty and a String (Load with the tags 3 and 4), and the six
\* comparisons with error-info index 0.
ComparePairs ==
  {<<InstructionType.Load0, 0>>, <<InstructionType.Load3, 0>>,
   <<InstructionType.Load, 3>>, <<InstructionType.Load, 4>>,
   <<InstructionType.Load, 5>>,
   <<InstructionType.Eq, 0>>, <<InstructionType.NEq, 0>>,
   <<InstructionType.LT, 0>>, <<InstructionType.LTE, 0>>,
   <<InstructionType.GT, 0>>, <<InstructionType.GTE, 0>>}

\* Three constants of one tag (4 String, 5 Atom), Pop, Eq, Halt: the payload
\* of the first two is the same byte, so that Eq meets two objects with the
\* same bytes.
EqualBytesImage(tag) ==
  <<InstructionType.Load, tag, InstructionType.Load, tag,
    InstructionType.Load, tag, InstructionType.Pop, 0,
    InstructionType.Eq, 0, InstructionType.Halt>>

InitCompare ==
  LoopHead(Programs(ComparePairs, MaxInstrs)
             \cup {EqualBytesImage(4), EqualBytesImage(5)})

NextCompare ==
  \/ runLoadN
  \/ runLoad
  \/ runPop
  \/ runEq
  \/ runNEq
  \/ runLT
  \/ runLTE
  \/ runGT
  \/ runGTE
  \/ runHalt

SpecCompare == InitCompare /\ [][NextCompare]_vars

\* ------------------------------------------------------------ calls

\* const auto CALL_FRAMES_MAX (vm.hpp:18).
CALL_FRAMES_MAX == 64

\* case Load (vm.cpp:120-123) of a Function record (tag 6): VM::readFunction
\* (vm.cpp:1157-1162) and VM::readFunctionBody (vm.cpp:1164-1180).  The name
\* length, the arity, the body length, the body bytes and the terminator
\* are all read from the byte after the tag, so that the record is accepted
\* when that byte is EndFn, and the arity is then 0x2D2D.
runLoadFunction ==
  /\ Fetch({InstructionType.Load})
  /\ readUInt8(bufferPtr + 1) = 6
  /\ LET p == bufferPtr + 2
         funcArity == readUInt16(p)
         endFn == readUInt8(p)
     IN IF endFn # InstructionType.EndFn
        THEN throwErrorMsg(Heap, "Expected EndFn")
        ELSE /\ Available # {}
             /\ \E h \in allocate(Heap, NewObj, "Function", <<>>) :
                  Install(push(h, ObjV(NewObj)))
             /\ arity' = [arity EXCEPT ![NewObj] = funcArity]
             /\ bufferPtr' = bufferPtr + 2
             /\ UNCHANGED <<buffer, status, callframes, from, dataVars>>

\* Stack::operator[] (vm.cpp:1226-1228) and Stack::fromLast
\* (vm.cpp:1230-1232): the position in std::vector the access goes to,
\* counted from 0.  A position that is negative here is one the std::size_t
\* subtraction wraps to the far end of the address space.
atIndex(index) == from + index

fromLast(indexFromLast) == Len(stack) - indexFromLast

\* std::vector::operator[] is defined for the positions below size().
inStack(i) == 0 <= i /\ i < Len(stack)

\* Stack::setFrom (vm.cpp:1234-1236): `from` is a std::uint16_t.
setFrom(argCount) == (Len(stack) - argCount - 1) % 65536

\* VM::callFunc (vm.cpp:545-575).  bufferPtr is a parameter passed by
\* value: the frame keeps the caller's pointer as it is after the case's
\* `bufferPtr++`, and `bufferPtr = func->buffers` changes the copy.
callFunc(couldBeFunc, argCount, errInfoIdx) ==
  IF ~holdsObject(couldBeFunc)
  THEN throwError(Heap, errInfoIdx, "is not callable")
  ELSE IF typeid(couldBeFunc.v) # "Function"
  THEN throwError(Heap, errInfoIdx, "is not callable")
  ELSE IF arity[couldBeFunc.v] # argCount
  THEN throwError(Heap, errInfoIdx, "takes arguments but was given")
  ELSE /\ Install(Heap)
       /\ callframes' = Append(callframes, [retAddr |-> bufferPtr + 1,
                                            prevFrom |-> from])
       /\ from' = setFrom(argCount)
       /\ bufferPtr' = bufferPtr + 2
       /\ UNCHANGED <<buffer, status, arity, dataVars>>

\* case CallFn (vm.cpp:503-510): both readUInt16 calls return the same
\* number, and `argCount - 1` is -1 for argCount 0.
runCallFn ==
  /\ Fetch({InstructionType.CallFn})
  /\ LET errInfoIdx == readUInt16(bufferPtr + 1)
         argCount == readUInt16(bufferPtr + 1)
         i == fromLast(argCount - 1)
     IN IF inStack(i) THEN callFunc(stack[i + 1], argCount, errInfoIdx)
        ELSE Undefined

\* case RetFn (vm.cpp:512-522) and the `bufferPtr++` of line 538.
runRetFn ==
  /\ Fetch({InstructionType.RetFn})
  /\ IF callframes = <<>> THEN Undefined
     ELSE LET poppedFrame == callframes[Len(callframes)]
          IN /\ Install(Heap)
             /\ callframes' = SubSeq(callframes, 1, Len(callframes) - 1)
             /\ bufferPtr' = poppedFrame.retAddr + 1
             /\ from' = poppedFrame.prevFrom
             /\ UNCHANGED <<buffer, status, arity, dataVars>>

\* case NipN (vm.cpp:154-161).
runNipN ==
  /\ Fetch({InstructionType.NipN})
  /\ LET length == readUInt8(bufferPtr + 1)
     IN IF Len(stack) < length + 1 THEN Undefined
        ELSE Continue(push(popN(Heap, length + 1), stack[Len(stack)]))

\* case GetLocal (vm.cpp:489-494).
runGetLocal ==
  /\ Fetch({InstructionType.GetLocal})
  /\ LET idx == readUInt16(bufferPtr + 1)
         i == atIndex(idx)
     IN IF inStack(i) THEN Continue(push(Heap, stack[i + 1]))
        ELSE Undefined

\* The encoding of a Function record (tag 6): an empty name, the arity as
\* a u16, the body length as an Integer, the body, EndFn.
FunctionRecord(a, body) ==
  <<6, 0, a, 0, Len(body), 0, 0, 0>> \o body \o <<InstructionType.EndFn>>

\* CallFn with error-info index 0 and n arguments.
CallFnBytes(n) == <<InstructionType.CallFn, 0, 0, n, 0>>

\* "f(); halt" for a function f of no parameters whose body is RetFn.
CallImage ==
  <<InstructionType.Load>> \o FunctionRecord(0, <<InstructionType.RetFn>>)
  \o CallFnBytes(0) \o <<InstructionType.Halt>>

\* "f(); halt" where the body of f loads g, whose body is RetFn, calls it
\* and returns.
NestedCallImage ==
  <<InstructionType.Load>>
  \o FunctionRecord(0, <<InstructionType.Load>>
                       \o FunctionRecord(0, <<InstructionType.RetFn>>)
                       \o CallFnBytes(0) \o <<InstructionType.RetFn>>)
  \o CallFnBytes(0) \o <<InstructionType.Halt>>

\* "f(2); halt" for a function f of one parameter that returns 3; the call
\* is followed by NipN 2, which drops the callable and the argument.
ArgumentCallImage ==
  <<InstructionType.Load>>
  \o FunctionRecord(1, <<InstructionType.Load3, InstructionType.RetFn>>)
  \o <<InstructionType.Load2>> \o CallFnBytes(1)
  \o <<InstructionType.NipN, 2, InstructionType.Halt>>

\* "f(); halt" for a function f of no parameters that calls itself: its
\* body is GetLocal 0, CallFn 0, RetFn.
RecursionImage ==
  <<InstructionType.Load>>
  \o FunctionRecord(0, <<InstructionType.GetLocal, 0, 0>> \o CallFnBytes(0)
                       \o <<InstructionType.RetFn>>)
  \o CallFnBytes(0) \o <<InstructionType.Halt>>

\* The byte pairs of the other images with calls: an Integer, a Function
\* record whose byte after the tag is EndFn, calls, returns, NipN and
\* GetLocal.
CallPairs ==
  {<<InstructionType.Load3, 0>>, <<InstructionType.Load, 6>>,
   <<InstructionType.EndFn, 0>>, <<InstructionType.CallFn, 0>>,
   <<InstructionType.CallFn, 1>>, <<InstructionType.RetFn, 0>>,
   <<InstructionType.NipN, 0>>, <<InstructionType.NipN, 1>>,
   <<InstructionType.GetLocal, 0>>}

CallImages ==
  {CallImage, NestedCallImage, ArgumentCallImage, RecursionImage}
  \cup Programs(CallPairs, MaxInstrs)

InitCall == LoopHead(CallImages)

NextCall ==
  \/ runLoadN
  \/ runLoadFunction
  \/ runCallFn
  \/ runRetFn
  \/ runNipN
  \/ runGetLocal
  \/ runHalt
  \/ runDefault

SpecCall == InitCall /\ [][NextCall]_vars

\* ------------------------------------------------- arithmetic and data

\* What a performX function that ended in throwError(errInfoIdx, msg) did.
throws(msg) == [thrown |-> TRUE, val |-> EmptyV, msg |-> msg]

\* The / and % of C++ on std::int64_t: the quotient is truncated towards 0.
abs(n) == IF n < 0 THEN 0 - n ELSE n

quot(l, r) ==
  IF (l < 0) = (r < 0) THEN abs(l) \div abs(r) ELSE 0 - (abs(l) \div abs(r))

rem(l, r) == l - r * quot(l, r)

\* VM::performDiv without the tests of the divisor (vm.cpp:695, 699, 706,
\* 710): a division by 0 gives the dividend back.
performDivUnchecked(left, right) ==
  IF left.t = "int" /\ right.t = "int"
  THEN returns(IF right.v = 0 THEN left
               ELSE IntV(quot(left.v, right.v)))
  ELSE throws("Cannot divide")

\* VM::performDiv (vm.cpp:687-721) on the operands the case popped (no
\* Float is drawn).
performDiv(left, right) ==
  IF left.t = "int" /\ right.t = "int"
  THEN IF right.v = 0 THEN throws("Cannot divide by zero")
       ELSE returns(IntV(quot(left.v, right.v)))
  ELSE throws("Cannot divide")

\* VM::performMod (vm.cpp:723-758).
performMod(left, right) ==
  IF left.t = "int" /\ right.t = "int"
  THEN IF right.v = 0 THEN throws("Cannot mod by 0")
       ELSE returns(IntV(rem(left.v, right.v)))
  ELSE throws("Cannot mod with")

\* case Div (vm.cpp:185-188).
runDiv ==
  /\ Fetch({InstructionType.Div})
  /\ IF Len(stack) < 2 THEN Undefined
     ELSE LET errInfoIdx == readUInt16(bufferPtr + 1)
              result == performDiv(popped(2)[2], popped(2)[1])
          IN IF result.thrown
             THEN throwError(popN(Heap, 2), errInfoIdx, result.msg)
             ELSE Continue(push(popN(Heap, 2), result.val))

\* case Mod (vm.cpp:190-193).
runMod ==
  /\ Fetch({InstructionType.Mod})
  /\ IF Len(stack) < 2 THEN Undefined
     ELSE LET errInfoIdx == readUInt16(bufferPtr + 1)
              result == performMod(popped(2)[2], popped(2)[1])
          IN IF result.thrown
             THEN throwError(popN(Heap, 2), errInfoIdx, result.msg)
             ELSE Continue(push(popN(Heap, 2), result.val))

\* case Negate (vm.cpp:242-253): the Value is popped, and pushed back
\* negated when it is an Integer (or a Float); there is no other branch.
runNegate ==
  /\ Fetch({InstructionType.Negate})
  /\ IF Len(stack) < 1 THEN Undefined
     ELSE LET val == popped(1)[1]
          IN IF val.t = "int"
             THEN Continue(push(popN(Heap, 1), IntV(0 - val.v)))
             ELSE Continue(popN(Heap, 1))

\* "Load3, Negate, Load0, Div(err=0), Halt" in byte pairs: a negative
\* dividend over 0.
NegativeDividendImage ==
  <<InstructionType.Load3, 0, InstructionType.Negate, 0,
    InstructionType.Load0, 0, InstructionType.Div, 0, InstructionType.Halt>>

\* The byte pairs of the images with arithmetic: Integer, Bool, Empty and
\* String constants, Div, Mod and Negate.
ArithPairs ==
  {<<InstructionType.Load0, 0>>, <<InstructionType.Load3, 0>>,
   <<InstructionType.Load4, 0>>, <<InstructionType.Load, 2>>,
   <<InstructionType.Load, 3>>, <<InstructionType.Load, 4>>,
   <<InstructionType.Div, 0>>, <<InstructionType.Mod, 0>>,
   <<InstructionType.Negate, 0>>}

InitArith ==
  LoopHead(Programs(ArithPairs, MaxInstrs) \cup {NegativeDividendImage})

NextArith ==
  \/ runLoadN
  \/ runLoad
  \/ runDiv
  \/ runMod
  \/ runNegate
  \/ runHalt

SpecArith == InitArith /\ [][NextArith]_vars

\* The Value a table keeps under key: value has the keys of the hashMap,
\* elems the Values.
member(es, keys, key) == es[CHOOSE i \in DOMAIN keys : keys[i] = key]

\* case IdxListOrTup (vm.cpp:313-347).  `typeid(obj)` is compared with
\* typeid(List) and typeid(Tuple); idx is converted to std::uint64_t for the
\* test of the range, so that a negative idx is out of range too.
runIdxListOrTup ==
  /\ Fetch({InstructionType.IdxListOrTup})
  /\ IF Len(stack) < 1 THEN Undefined
     ELSE LET errInfoIdx == readUInt16(bufferPtr + 1)
              idx == readInteger(bufferPtr + 1)
              val == popped(1)[1]
              h == popN(Heap, 1)
          IN IF ~holdsObject(val)
             THEN throwError(h, errInfoIdx, "Expected a list or tuple")
             ELSE IF typeid(val.v) \in {"List", "Tuple"}
             THEN IF idx < 0 \/ Len(elems[val.v]) <= idx
                  THEN throwError(h, errInfoIdx, "Index out of range")
                  ELSE Continue(push(h, elems[val.v][idx + 1]))
             ELSE throwError(h, errInfoIdx, "Expected a list or tuple")

\* case SetList (vm.cpp:349-380).  `auto elements = ...->elements` is a copy
\* of the vector, and the store goes to the copy.
runSetList ==
  /\ Fetch({InstructionType.SetList})
  /\ IF Len(stack) < 2 THEN Undefined
     ELSE LET errInfoIdx == readUInt16(bufferPtr + 1)
              idx == readInteger(bufferPtr + 1)
              newValue == popped(2)[1]
              couldBeList == popped(2)[2]
              h == popN(Heap, 2)
          IN IF ~holdsObject(couldBeList)
             THEN throwError(h, errInfoIdx, "Expected a list")
             ELSE IF typeid(couldBeList.v) # "List"
             THEN throwError(h, errInfoIdx, "Expected a list")
             ELSE IF idx < 0 \/ Len(elems[couldBeList.v]) <= idx
             THEN throwError(h, errInfoIdx, "Index out of range")
             ELSE Continue(h)

\* case GetMember (vm.cpp:382-410).
runGetMember ==
  /\ Fetch({InstructionType.GetMember})
  /\ IF Len(stack) < 1 THEN Undefined
     ELSE LET errInfoIdx == readUInt16(bufferPtr + 1)
              key == readShortString(bufferPtr + 1)
              val == popped(1)[1]
              h == popN(Heap, 1)
          IN IF ~holdsObject(val)
             THEN throwError(h, errInfoIdx, "Expected a table")
             ELSE IF typeid(val.v) # "Table"
             THEN throwError(h, errInfoIdx, "Expected a table")
             ELSE IF key \notin Range(value[val.v])
             THEN throwErrorMsg(h, "Table does not have key")
             ELSE Continue(push(h, member(elems[val.v], value[val.v], key)))

\* case SetMember (vm.cpp:412-437): insert_or_assign on the table's hashMap.
runSetMember ==
  /\ Fetch({InstructionType.SetMember})
  /\ IF Len(stack) < 2 THEN Undefined
     ELSE LET errInfoIdx == readUInt16(bufferPtr + 1)
              key == readShortString(bufferPtr + 1)
              newValue == popped(2)[1]
              couldBeTable == popped(2)[2]
              h == popN(Heap, 2)
          IN IF ~holdsObject(couldBeTable)
             THEN throwError(h, errInfoIdx, "Expected a table")
             ELSE IF typeid(couldBeTable.v) # "Table"
             THEN throwError(h, errInfoIdx, "Expected a table")
             ELSE LET o == couldBeTable.v
                      keys == IF key \in Range(value[o]) THEN value[o]
                              ELSE Append(value[o], key)
                      i == CHOOSE j \in DOMAIN keys : keys[j] = key
                  IN /\ Install([h EXCEPT
                                   !.elems[o] =
                                     [j \in DOMAIN keys |->
                                        IF j = i THEN newValue ELSE @[j]]])
                     /\ value' = [value EXCEPT ![o] = keys]
                     /\ bufferPtr' = bufferPtr + 2
                     /\ UNCHANGED <<buffer, status, callVars, globals,
                                    diagnostic, errorInfoList, portVars>>

\* "Load1, Load2, Load3, InitList 3, IdxListOrTup idx=0, Halt" in byte pairs.
IndexImage ==
  <<InstructionType.Load1, 0, InstructionType.Load2, 0,
    InstructionType.Load3, 0, InstructionType.InitList, 3,
    InstructionType.IdxListOrTup, 0, InstructionType.Halt>>

\* A list of one element, a second reference to it, a store at index 0
\* through one of them and a read through the other.
SetListImage ==
  <<InstructionType.Load0, 0, InstructionType.InitList, 1,
    InstructionType.Dup, 0, InstructionType.Load3, 0,
    InstructionType.SetList, 0, InstructionType.IdxListOrTup, 0,
    InstructionType.Halt>>

\* An empty table, a second reference to it, SetMember through one of them
\* and GetMember of the same key through the other.
TableImage ==
  <<InstructionType.InitTable, 0, InstructionType.Dup, 0,
    InstructionType.Load3, 0, InstructionType.SetMember, 1,
    InstructionType.GetMember, 1, InstructionType.Halt>>

\* The byte pairs of the images with collections.
DataPairs ==
  {<<InstructionType.Load0, 0>>, <<InstructionType.Load3, 0>>,
   <<InstructionType.Dup, 0>>,
   <<InstructionType.InitList, 0>>, <<InstructionType.InitList, 1>>,
   <<InstructionType.InitList, 2>>, <<InstructionType.InitTup, 2>>,
   <<InstructionType.InitTable, 0>>, <<InstructionType.InitTable, 1>>,
   <<InstructionType.IdxListOrTup, 0>>, <<InstructionType.IdxListOrTup, 1>>,
   <<InstructionType.SetList, 0>>,
   <<InstructionType.GetMember, 0>>, <<InstructionType.GetMember, 1>>,
   <<InstructionType.SetMember, 1>>}

InitData ==
  LoopHead(Programs(DataPairs, MaxInstrs)
             \cup {IndexImage, SetListImage, TableImage})

NextData ==
  \/ runLoadN
  \/ runDup
  \/ runInitList
  \/ runInitTup
  \/ runInitTable
  \/ runIdxListOrTup
  \/ runSetList
  \/ runGetMember
  \/ runSetMember
  \/ runHalt

SpecData == InitData /\ [][NextData]_vars

\* ------------------------------------------------------------ globals

\* The end of an iteration that changed VM::globals.
ContinueGlobals(h, g) ==
  /\ Install(h)
  /\ globals' = g
  /\ bufferPtr' = bufferPtr + 2
  /\ UNCHANGED <<buffer, status, callVars, value, diagnostic,
                 errorInfoList, portVars>>

\* case DefGlobal without the test of globals.count(varName)
\* (vm.cpp:445-449): a second definition rebinds the name.
runDefGlobalRebind ==
  /\ Fetch({InstructionType.DefGlobal})
  /\ IF Len(stack) < 1 THEN Undefined
     ELSE LET varName == readShortString(bufferPtr + 1)
              val == popped(1)[1]
          IN ContinueGlobals(popN(Heap, 1),
                             (varName :> val) @@ globals)

\* case DefGlobal (vm.cpp:439-453): errInfoIdx and varName are read from
\* the same byte.
runDefGlobal ==
  /\ Fetch({InstructionType.DefGlobal})
  /\ IF Len(stack) < 1 THEN Undefined
     ELSE LET errInfoIdx == readUInt16(bufferPtr + 1)
              varName == readShortString(bufferPtr + 1)
              val == popped(1)[1]
              h == popN(Heap, 1)
          IN IF varName \in DOMAIN globals
             THEN throwError(h, errInfoIdx, "is already defined")
             ELSE ContinueGlobals(h, globals @@ (varName :> val))

\* case GetGlobal (vm.cpp:455-469).
runGetGlobal ==
  /\ Fetch({InstructionType.GetGlobal})
  /\ LET errInfoIdx == readUInt16(bufferPtr + 1)
         varName == readShortString(bufferPtr + 1)
     IN IF varName \notin DOMAIN globals
        THEN throwError(Heap, errInfoIdx, "is not defined")
        ELSE Continue(push(Heap, globals[varName]))

\* case SetGlobal (vm.cpp:471-487).
runSetGlobal ==
  /\ Fetch({InstructionType.SetGlobal})
  /\ IF Len(stack) < 1 THEN Undefined
     ELSE LET errInfoIdx == readUInt16(bufferPtr + 1)
              varName == readShortString(bufferPtr + 1)
              val == popped(1)[1]
              h == popN(Heap, 1)
          IN IF varName \notin DOMAIN globals
             THEN throwError(h, errInfoIdx, "is not defined")
             ELSE ContinueGlobals(h, [globals EXCEPT ![varName] = val])

\* Two definitions of one name: "Load0, DefGlobal, Load3, DefGlobal, Halt"
\* in byte pairs.
RedefinitionImage ==
  <<InstructionType.Load0, 0, InstructionType.DefGlobal, 0,
    InstructionType.Load3, 0, InstructionType.DefGlobal, 0,
    InstructionType.Halt>>

\* The byte pairs of the images with globals: two Integer constants and
\* two names.
GlobalPairs ==
  {<<InstructionType.Load0, 0>>, <<InstructionType.Load3, 0>>,
   <<InstructionType.DefGlobal, 0>>, <<InstructionType.DefGlobal, 1>>,
   <<InstructionType.GetGlobal, 0>>, <<InstructionType.GetGlobal, 1>>,
   <<InstructionType.SetGlobal, 0>>, <<InstructionType.SetGlobal, 1>>}

\* A definition, an assignment and a read of one name.
AssignmentImage ==
  <<InstructionType.Load0, 0, InstructionType.DefGlobal, 0,
    InstructionType.Load3, 0, InstructionType.SetGlobal, 0,
    InstructionType.GetGlobal, 0, InstructionType.Halt>>

InitGlobals ==
  LoopHead(Programs(GlobalPairs, MaxInstrs)
             \cup {RedefinitionImage, AssignmentImage})

NextGlobals ==
  \/ runLoadN
  \/ runDefGlobal
  \/ runGetGlobal
  \/ runSetGlobal
  \/ runHalt

SpecGlobals == InitGlobals /\ [][NextGlobals]_vars

\* ------------------------------------------------------------ fatal errors

\* The images of the arithmetic, collection and global instructions, run
\* by one loop.
InitRun ==
  LoopHead(Programs(ArithPairs, MaxInstrs) \cup {NegativeDividendImage}
             \cup Programs(DataPairs, MaxInstrs)
             \cup {IndexImage, SetListImage, TableImage}
             \cup Programs(GlobalPairs, MaxInstrs)
             \cup {RedefinitionImage, AssignmentImage})

NextRun ==
  \/ runLoadN
  \/ runLoad
  \/ runDup
  \/ runDiv
  \/ runMod
  \/ runNegate
  \/ runInitList
  \/ runInitTup
  \/ runInitTable
  \/ runIdxListOrTup
  \/ runSetList
  \/ runGetMember
  \/ runSetMember
  \/ runDefGlobal
  \/ runGetGlobal
  \/ runSetGlobal
  \/ runHalt

SpecRun == InitRun /\ [][NextRun]_vars

\* ------------------------------------------------------------ loading

MAGIC_NUMBER == <<70, 76, 65, 78>>

VERSION == <<0, 0, 0>>

\* VM::checkMagicNumber (vm.cpp:1021-1026) and VM::checkVersion
\* (vm.cpp:1028-1032): every readUInt8 reads the byte at p.
checkMagicNumber(p) ==
  /\ readUInt8(p) = MAGIC_NUMBER[1]
  /\ readUInt8(p) = MAGIC_NUMBER[2]
  /\ readUInt8(p) = MAGIC_NUMBER[3]
  /\ readUInt8(p) = MAGIC_NUMBER[4]

checkVersion(p) ==
  /\ readUInt8(p) = VERSION[1]
  /\ readUInt8(p) <= VERSION[2]
  /\ readUInt8(p) <= VERSION[3]

\* VM::readErrorInfoSection (vm.cpp:49-69): bufferPtr is this->buffer, the
\* first byte of the image, and the count, the line, the length and the
\* characters of every record are read from that byte.
readErrorInfoSection ==
  LET p == 0
      errorInfoListLength == readUInt16(p)
  IN [i \in 1..errorInfoListLength |->
        [line |-> readUInt16(p),
         lineText |-> chars(readUInt16(p), readUInt8(p))]]

\* VM::VM (vm.cpp:19-43).  The stream has just been opened, so tellg() is
\* 0, `new char[0]` is allocated and read() copies no byte of the file:
\* readErrorInfoSection, the last statement of the constructor, reads past
\* the end of the array.  buffer holds the bytes the memory has there (the
\* bytes of the file among the possibilities); the read may also end the
\* process.
constructVM ==
  /\ status = "constructing"
  /\ \E fault \in BOOLEAN :
       IF fault THEN Undefined
       ELSE /\ status' = "constructed"
            /\ errorInfoList' = readErrorInfoSection
            /\ UNCHANGED <<stack, kind, elems, marked, freed, nursery,
                           retirementHome, nurseryHeap, retirementHomeHeap,
                           crashed, ran, buffer, bufferPtr, callVars, value,
                           globals, diagnostic, portVars>>

\* VM::run up to the head of its loop (vm.cpp:71-81): the two checks take
\* bufferPtr by value, so that the loop starts at the first byte.
run ==
  /\ status = "constructed"
  /\ LET p == 0
     IN IF ~checkMagicNumber(p)
        THEN throwErrorMsg(Heap, "Invalid Magic number")
        ELSE IF ~checkVersion(p)
        THEN throwErrorMsg(Heap, "Update the Flan runtime")
        ELSE /\ status' = "running"
             /\ bufferPtr' = p
             /\ UNCHANGED <<stack, kind, elems, marked, freed, nursery,
                            retirementHome, nurseryHeap, retirementHomeHeap,
                            crashed, ran, buffer, callVars, dataVars>>

\* An image in the layout of the format: the magic "FLAN", the version
\* 0.0.0, a table of one record (line 1, the text "x"), then "Load3, Halt".
WellFormedImage ==
  MAGIC_NUMBER \o VERSION \o <<1, 0>> \o <<1, 0, 1, 0, 120>>
    \o <<InstructionType.Load3, InstructionType.Halt>>

\* The bytes at this->buffer: the well-formed image, and byte sequences
\* that do not start with the magic.
LoadImages ==
  {WellFormedImage} \cup
  {<<m>> \o code : m \in {0, 1}, code \in Programs(ArithPairs, MaxInstrs)}

InitLoad ==
  /\ stack = <<>>
  /\ kind = [o \in ObjIds |-> "none"]
  /\ elems = [o \in ObjIds |-> <<>>]
  /\ marked = [o \in ObjIds |-> FALSE]
  /\ freed = {}
  /\ nursery = <<>>
  /\ retirementHome = <<>>
  /\ nurseryHeap = 0
  /\ retirementHomeHeap = 0
  /\ crashed = FALSE
  /\ ran = "none"
  /\ buffer \in LoadImages
  /\ bufferPtr = 0
  /\ status = "constructing"
  /\ callframes = <<>>
  /\ from = 0
  /\ arity = [o \in ObjIds |-> 0]
  /\ value = [o \in ObjIds |-> chars(0, 0)]
  /\ globals = <<>>
  /\ diagnostic = NoDiagnostic
  /\ errorInfoList = <<>>
  /\ NoPort

NextLoad ==
  \/ constructVM
  \/ run

SpecLoad == InitLoad /\ [][NextLoad]_vars

\* ------------------------------------------------------------ readers

\* A std::int64_t as its 8 bytes, least significant first (two's
\* complement): the Integers of 32 bits and more do not fit the integers of
\* the checker.
ZeroInt64 == [i \in 1..8 |-> 0]

\* `result |= static_cast<int64_t>(byte) << (i * 8)` for 0 <= i < 4: the cast
\* of a std::uint8_t is not negative, and the bits of byte i of result are
\* or-ed with byte.
orShifted(result, byte, i) == [result EXCEPT ![i + 1] = BitOr(@, byte)]

\* VM::readInteger (vm.cpp:1110-1119) with the result as 8 bytes: the four
\* bytes are four reads of the byte at p.
readInteger64(p) ==
  LET bytes == [i \in 1..4 |-> readUInt8(p)]
  IN orShifted(orShifted(orShifted(orShifted(ZeroInt64, bytes[1], 0),
                                   bytes[2], 1), bytes[3], 2), bytes[4], 3)

\* case Load (vm.cpp:120-123) of an Integer record (tag 0), the Integer
\* kept as its 8 bytes.
runLoadInteger ==
  /\ Fetch({InstructionType.Load})
  /\ readUInt8(bufferPtr + 1) = 0
  /\ Continue(push(Heap, [t |-> "int", v |-> readInteger64(bufferPtr + 2)]))

\* The bytes of the operands of the images below.
OperandValues == {0, 1, 128, 255}

\* An Integer constant, an InitList and a GetGlobal with four operand
\* bytes each, then Load0 and Halt.
ReaderImages ==
  {head \o <<b[1], b[2], b[3], b[4]>>
        \o <<InstructionType.Load0, InstructionType.Halt>> :
     head \in {<<InstructionType.Load, 0>>, <<InstructionType.InitList>>,
                <<InstructionType.GetGlobal>>},
     b \in [1..4 -> OperandValues]}

InitRead == LoopHead(ReaderImages)

NextRead ==
  \/ runPastEnd
  \/ runLoadInteger
  \/ runLoadN
  \/ runInitList
  \/ runGetGlobal
  \/ runDefault
  \/ runHalt

SpecRead == InitRead /\ [][NextRead]_vars

\* ------------------------------------------------------------ the end of the image

\* The images of n byte pairs of P at most with no Halt after them.
Unterminated(P, n) == {flatten(ps) : ps \in UNION {[1..k -> P] : k \in 0..n}}

\* The byte pairs of the images that run to their end: Integer constants
\* and jumps.
EndPairs ==
  {<<InstructionType.Load0, 0>>, <<InstructionType.Load3, 0>>,
   <<InstructionType.Jmp, 0>>, <<InstructionType.Jmp, 2>>}

InitEnd ==
  LoopHead(Programs(EndPairs, MaxInstrs) \cup Unterminated(EndPairs, MaxInstrs))

NextEnd ==
  \/ runLoadN
  \/ runJmp
  \/ runHalt
  \/ runPastEnd

SpecEnd == InitEnd /\ [][NextEnd]_vars

\* ------------------------------------------------------------ globals that hold objects

\* The byte pairs of the images that store objects in globals: a String
\* constant, a definition, an assignment and a read of one name, and the
\* allocation of an empty List.
KeepPairs ==
  {<<InstructionType.Load, 4>>, <<InstructionType.DefGlobal, 0>>,
   <<InstructionType.SetGlobal, 0>>, <<InstructionType.GetGlobal, 0>>,
   <<InstructionType.InitList, 0>>}

\* A String defined as a global, a second String assigned to it, and a read.
ReassignObjectImage ==
  <<InstructionType.Load, 4, InstructionType.DefGlobal, 0,
    InstructionType.Load, 4, InstructionType.SetGlobal, 0,
    InstructionType.GetGlobal, 0, InstructionType.Halt>>

InitKeep == LoopHead(Programs(KeepPairs, MaxInstrs) \cup {ReassignObjectImage})

NextKeep ==
  \/ runLoad
  \/ runDefGlobal
  \/ runSetGlobal
  \/ runGetGlobal
  \/ runInitList
  \/ runHalt

SpecKeep == InitKeep /\ [][NextKeep]_vars

\* ------------------------------------------------------------ free_gc (gc.c)

\* The lists of distinct objects of S.
Lists(S) ==
  UNION {{l \in [1..Cardinality(T) -> T] : Range(l) = T} : T \in SUBSET S}

\* The collectors free_gc is called on: register_object puts an object in
\* the nursery list and collect_nursery moves it to the nursing home
\* (gc.c:7-52), so that an object is in one list, once, or in neither.
Collectors ==
  {[nursery_list |-> n, nursing_home_list |-> h] :
     <<n, h>> \in {l \in Lists(ObjIds) \X Lists(ObjIds) :
                    Range(l[1]) \cap Range(l[2]) = {}}}

\* The head of a list of nodes.
first(list) == IF list = <<>> THEN NULL ELSE Head(list)

\* free_gc (gc.c:143-154), line 145: the call and the initialisation of
\* current_node.
free_gc ==
  /\ pc = "free_gc"
  /\ current_node' = first(gc.nursing_home_list)
  /\ pc' = "while"
  /\ UNCHANGED <<cppVars, gc, freeCalls, hm, freedKeys, ret>>

\* The body of the loop (gc.c:146-150): the object of the node is freed,
\* then the node; current_node is not assigned.  In the iteration after,
\* current_node points to the freed node and `current_node->obj` reads
\* freed memory: undefined behaviour.
free_gc_while ==
  /\ pc = "while"
  /\ current_node # NULL
  /\ IF freeCalls[current_node] > 0
     THEN pc' = "undefined" /\ UNCHANGED freeCalls
     ELSE /\ freeCalls' = [freeCalls EXCEPT ![current_node] = @ + 1]
          /\ UNCHANGED pc
  /\ UNCHANGED <<cppVars, gc, current_node, hm, freedKeys, ret>>

\* The end of the loop and `free(gc)` (gc.c:146, 152-153).
free_gc_return ==
  /\ pc = "while"
  /\ current_node = NULL
  /\ pc' = "returned"
  /\ UNCHANGED <<cppVars, gc, current_node, freeCalls, hm, freedKeys, ret>>

InitFreeGc ==
  /\ NoVM
  /\ gc \in Collectors
  /\ current_node = NULL
  /\ freeCalls = [o \in ObjIds |-> 0]
  /\ pc = "free_gc"
  /\ hm = [entries |-> <<>>, len |-> 0, cap |-> 0]
  /\ freedKeys = {}
  /\ ret = <<>>

NextFreeGc ==
  \/ free_gc
  \/ free_gc_while
  \/ free_gc_return

SpecFreeGc == InitFreeGc /\ [][NextFreeGc]_vars

\* ------------------------------------------------------------ HM (hashmap.c)

\* #define INITIAL_HM_CAP (hashmap.h:7).
INITIAL_HM_CAP == 8

\* The keys and the value pointers the calls are made with: MaxKeys strings
\* of one character, "a", "q", "c", "d", ...; "a" and "q" start their probe
\* at the same slot, in a table of 8 and in a table of 16.
MaxKeys == 6

KeyChar(i) == IF i = 1 THEN 113 ELSE 97 + i

Keys == {<<KeyChar(i)>> : i \in 0..MaxKeys - 1}

\* The value pointers hm_set is called with: two for each of the keys that
\* collide, one for the others.
Values(key) == IF key \in {<<KeyChar(0)>>, <<KeyChar(1)>>} THEN {1, 2} ELSE {1}

RECURSIVE BitXor(_, _)
BitXor(a, b) ==
  IF a = 0 THEN b
  ELSE IF b = 0 THEN a
  ELSE (IF a % 2 # b % 2 THEN 1 ELSE 0) + 2 * BitXor(a \div 2, b \div 2)

RECURSIVE BitAnd(_, _)
BitAnd(a, b) ==
  IF a = 0 \/ b = 0 THEN 0
  ELSE (IF a % 2 = 1 /\ b % 2 = 1 THEN 1 ELSE 0)
       + 2 * BitAnd(a \div 2, b \div 2)

\* hash_key (hashmap.c:24-32) is FNV-1a on 64 bits.  The tables here have
\* 256 slots at most, `hash & (cap - 1)` keeps the low bits, and the low
\* byte of a xor and of a product depends on the low bytes of the operands
\* only: the hash is computed modulo 2^8, from the low bytes 0x25 of
\* FNV_OFFSET and 0xB3 of FNV_PRIME (hashmap.h:9-10).
HashModulus == 2 ^ 8

FNV_OFFSET == 2 * 16 + 5

FNV_PRIME == 11 * 16 + 3

RECURSIVE hashFrom(_, _)
hashFrom(hash, key) ==
  IF key = <<>> THEN hash
  ELSE hashFrom((BitXor(hash, Head(key)) * FNV_PRIME) % HashModulus, Tail(key))

hash_key(key) == hashFrom(FNV_OFFSET, key)

\* The null pointer as a key (`const char *`); no key of Keys is the empty
\* string.
NoKey == <<>>

\* HMEntry (hashmap.h:12-15) and calloc(n, sizeof(HMEntry)).
Entry(key, val) == [key |-> key, value |-> val]

calloc(n) == [i \in 1..n |-> Entry(NoKey, NULL)]

\* hm_init (hashmap.c:9-13).
hm_init == [entries |-> calloc(INITIAL_HM_CAP), len |-> 0, cap |-> INITIAL_HM_CAP]

\* The probe loop hm_include, hm_get, hm_set_entry and hm_pop share
\* (hashmap.c:38-42), from slot idx, after n slots: it stops at the slot
\* of the key ("found") or at an empty slot ("empty"); utf8cmp on a key
\* string that was freed is undefined behaviour; with no empty slot and no
\* slot of the key it never stops ("loops").  d: the slots whose key
\* string was freed.
RECURSIVE probe(_, _, _, _, _)
probe(entries, d, key, idx, n) ==
  IF n = Len(entries) THEN [state |-> "loops", idx |-> idx]
  ELSE IF entries[idx + 1].key = NoKey THEN [state |-> "empty", idx |-> idx]
  ELSE IF idx \in d THEN [state |-> "undefined", idx |-> idx]
  ELSE IF entries[idx + 1].key = key THEN [state |-> "found", idx |-> idx]
  ELSE probe(entries, d, key, IF idx + 1 >= Len(entries) THEN 0 ELSE idx + 1,
             n + 1)

\* `idx = hash & (cap - 1)` and the loop.
find(entries, d, key) ==
  probe(entries, d, key, BitAnd(hash_key(key), Len(entries) - 1), 0)

\* hm_include (hashmap.c:34-45): what the call returns, or how it fails.
hm_include(h, d, key) ==
  LET r == find(h.entries, d, key)
  IN CASE r.state = "found" -> [state |-> "ok", ret |-> TRUE]
       [] r.state = "empty" -> [state |-> "ok", ret |-> FALSE]
       [] OTHER -> [state |-> r.state, ret |-> FALSE]

\* hm_get (hashmap.c:47-58).
hm_get(h, d, key) ==
  LET r == find(h.entries, d, key)
  IN CASE r.state = "found" ->
            [state |-> "ok", ret |-> h.entries[r.idx + 1].value]
       [] r.state = "empty" -> [state |-> "ok", ret |-> NULL]
       [] OTHER -> [state |-> r.state, ret |-> NULL]

\* hm_set_entry (hashmap.c:60-87); counted: plen is not NULL (utf8dup and
\* calloc succeed).
hm_set_entry(entries, d, key, val, len, counted) ==
  LET r == find(entries, d, key)
  IN CASE r.state = "found" ->
            [state |-> "ok", len |-> len, ret |-> key,
             entries |-> [entries EXCEPT ![r.idx + 1].value = val]]
       [] r.state = "empty" ->
            [state |-> "ok", len |-> IF counted THEN len + 1 ELSE len,
             ret |-> key,
             entries |-> [entries EXCEPT ![r.idx + 1] = Entry(key, val)]]
       [] OTHER ->
            [state |-> r.state, len |-> len, ret |-> NoKey,
             entries |-> entries]

\* The loop of hm_grow (hashmap.c:97-101) from slot i: every entry with a
\* key is set in the new table; hash_key on a freed key string is
\* undefined behaviour.
RECURSIVE moveEntries(_, _, _, _)
moveEntries(h, d, new_entries, i) ==
  IF i = h.cap THEN [state |-> "ok", entries |-> new_entries]
  ELSE LET entry == h.entries[i + 1]
       IN IF entry.key = NoKey THEN moveEntries(h, d, new_entries, i + 1)
          ELSE IF i \in d
          THEN [state |-> "undefined", entries |-> new_entries]
          ELSE LET s == hm_set_entry(new_entries, {}, entry.key, entry.value,
                                     0, FALSE)
               IN IF s.state # "ok"
                  THEN [state |-> s.state, entries |-> new_entries]
                  ELSE moveEntries(h, d, s.entries, i + 1)

\* A hm_grow that copies every entry to the slot it had, as a variant of
\* hm_grow.
hm_grow_in_place(h, d) ==
  [state |-> "ok",
   hm |-> [entries |-> h.entries \o calloc(h.cap), len |-> h.len,
           cap |-> h.cap * 2]]

\* hm_grow (hashmap.c:89-108).
hm_grow(h, d) ==
  LET new_cap == h.cap * 2
      m == moveEntries(h, d, calloc(new_cap), 0)
  IN [state |-> m.state,
      hm |-> [entries |-> m.entries, len |-> h.len, cap |-> new_cap]]

\* hm_set (hashmap.c:110-115): `len >= cap * (2.0 / 3)` is 3 * len >=
\* 2 * cap, cap being a power of two.
hm_set(h, d, key, val) ==
  LET grows == 3 * h.len >= 2 * h.cap
      g == IF grows THEN hm_grow(h, d) ELSE [state |-> "ok", hm |-> h]
      d1 == IF grows THEN {} ELSE d
      s == hm_set_entry(g.hm.entries, d1, key, val, g.hm.len, TRUE)
  IN IF g.state # "ok"
     THEN [state |-> g.state, hm |-> h, d |-> d, ret |-> NoKey]
     ELSE [state |-> s.state, d |-> d1, ret |-> s.ret,
           hm |-> [entries |-> s.entries, len |-> s.len, cap |-> g.hm.cap]]

\* hm_pop (hashmap.c:117-134): the key string of the slot is freed; the
\* `key = NULL` that follows assigns the local variable declared two lines
\* above it, so that the slot keeps the pointer, and len is not changed.
hm_pop(h, d, key) ==
  LET r == find(h.entries, d, key)
  IN CASE r.state = "found" ->
            [state |-> "ok", hm |-> h, d |-> d \cup {r.idx},
             ret |-> h.entries[r.idx + 1].value]
       [] r.state = "empty" ->
            [state |-> "ok", hm |-> h, d |-> d, ret |-> NULL]
       [] OTHER -> [state |-> r.state, hm |-> h, d |-> d, ret |-> NULL]

Call(op, key, val, r) == [op |-> op, key |-> key, value |-> val, ret |-> r]

\* The end of a call that returned, and of one that did not.
Returned(h, d, call) ==
  /\ hm' = h
  /\ freedKeys' = d
  /\ ret' = call
  /\ UNCHANGED <<cppVars, gc, current_node, freeCalls, pc>>

Failed(state) ==
  /\ pc' = state
  /\ UNCHANGED <<cppVars, gc, current_node, freeCalls, hm, freedKeys, ret>>

call_hm_set ==
  /\ pc = "ready"
  /\ \E key \in Keys : \E val \in Values(key) :
       LET s == hm_set(hm, freedKeys, key, val)
       IN IF s.state = "ok"
          THEN Returned(s.hm, s.d, Call("hm_set", key, val, s.ret))
          ELSE Failed(s.state)

call_hm_get ==
  /\ pc = "ready"
  /\ \E key \in Keys :
       LET r == hm_get(hm, freedKeys, key)
       IN IF r.state = "ok"
          THEN Returned(hm, freedKeys, Call("hm_get", key, NULL, r.ret))
          ELSE Failed(r.state)

call_hm_include ==
  /\ pc = "ready"
  /\ \E key \in Keys :
       LET r == hm_include(hm, freedKeys, key)
       IN IF r.state = "ok"
          THEN Returned(hm, freedKeys, Call("hm_include", key, NULL, r.ret))
          ELSE Failed(r.state)

call_hm_pop ==
  /\ pc = "ready"
  /\ \E key \in Keys :
       LET s == hm_pop(hm, freedKeys, key)
       IN IF s.state = "ok"
          THEN Returned(s.hm, s.d, Call("hm_pop", key, NULL, s.ret))
          ELSE Failed(s.state)

InitMap ==
  /\ NoVM
  /\ gc = [nursery_list |-> <<>>, nursing_home_list |-> <<>>]
  /\ current_node = NULL
  /\ freeCalls = [o \in ObjIds |-> 0]
  /\ pc = "ready"
  /\ hm = hm_init
  /\ freedKeys = {}
  /\ ret = Call("hm_init", NoKey, NULL, NULL)

NextMap ==
  \/ call_hm_set
  \/ call_hm_get
  \/ call_hm_include

SpecMap == InitMap /\ [][NextMap]_vars

NextMapPop ==
  \/ call_hm_set
  \/ call_hm_get
  \/ call_hm_include
  \/ call_hm_pop

SpecMapPop == InitMap /\ [][NextMapPop]_vars

\* ------------------------------------------------------------ properties

\* The objects reachable from the value stack through List elements, Table
\* values, Tuple values, Upvalue cells and Closure function/upvalues.
RECURSIVE reachFrom(_, _)
reachFrom(seen, frontier) ==
  IF frontier = {} THEN seen
  ELSE LET now == seen \cup frontier
       IN reachFrom(now, UNION {ObjectsOf(elems[o]) : o \in frontier} \ now)

Reachable == reachFrom({}, ObjectsOf(stack))

\* Created and not destroyed.
Live(o) == kind[o] # "none" /\ o \notin freed

LiveObjs == {o \in ObjIds : Live(o)}

Listed == Range(nursery) \cup Range(retirementHome)

Occurrences(list, o) == Cardinality({i \in DOMAIN list : list[i] = o})

RECURSIVE sumByteSize(_)
sumByteSize(objs) ==
  IF objs = {} THEN 0
  ELSE LET o == CHOOSE x \in objs : TRUE
       IN byteSize(Heap, o) + sumByteSize(objs \ {o})

\* C1: after any collection every object reachable from the value stack is
\* alive, the objects the nursery collection has just promoted included.
C1_ReachableAlive ==
  (~crashed /\ ran # "none") => \A o \in Reachable : Live(o)

\* C2: a collection destroys every object of the collected generation that
\* was not reachable from the stack when it started: of the nursery when the
\* nursery was collected, of the retirement home when it was collected too.
C2_UnreachableDestroyed ==
  [][(~crashed' /\ ran' # "none") =>
       /\ \A o \in Range(nursery) \ Reachable : o \in freed'
       /\ ran' = "both" =>
            \A o \in Range(retirementHome) \ Reachable : o \in freed']_vars

\* C3: the two byte accounts add up to the byte sizes of the live objects.
C3_BytesAccountLive ==
  ~crashed => nurseryHeap + retirementHomeHeap = sumByteSize(LiveObjs)

\* C4: no collection is in progress in any state of the model; every live
\* object of either generation list has marked = false.
C4_MarksCleared ==
  ~crashed => \A o \in Listed : Live(o) => ~marked[o]

\* C5: a nursery collection leaves the nursery list empty and its byte
\* account 0; when the retirement home was not collected after it, every
\* object of the old nursery list is destroyed (it was unreachable) or is
\* in the retirement home with marked = false (it was reachable).
C5_NurseryEmptied ==
  [][(~crashed' /\ ran' # "none") =>
       /\ nursery' = <<>>
       /\ nurseryHeap' = 0
       /\ ran' = "nursery" =>
            \A o \in Range(nursery) :
              IF o \in Reachable
              THEN o \in Range(retirementHome') /\ ~marked'[o] /\ o \notin freed'
              ELSE o \in freed']_vars

\* C6: every live object is in exactly one generation list, exactly once,
\* and an object of the retirement home never gets back into the nursery.
C6_OneListOnce ==
  /\ [](~crashed =>
          \A o \in LiveObjs :
            Occurrences(nursery, o) + Occurrences(retirementHome, o) = 1)
  /\ [][\A o \in Range(retirementHome) : o \notin Range(nursery')]_vars

\* C7: a createX call that starts with the nursery's account over its cap
\* collects the nursery before it registers the new object, so that the
\* nursery list then holds the new object only.
C7_CreateChecksThreshold ==
  [][(~crashed' /\ kind' # kind /\ nursery # <<>>
      /\ nurseryHeap > maxNurserySize) =>
       Head(nursery) \notin Range(nursery')]_vars

MarkedAfterMarkPhase == {o \in ObjIds : markAll(Heap).marked[o]}

C9_MarkExact ==
  ~crashed => MarkedAfterMarkPhase = Reachable


\* C10: an instruction that is no jump, call, return or Halt moves the
\* program counter by 1 plus the size of its inline operands: none for
\* Load0 .. Load5, Pop and Dup, a u16 for Add, a u32 for InitList and
\* InitTup.
C10_PcAdvance ==
  [][(status = "running" /\ status' = "running") =>
       LET op == buffer[bufferPtr + 1]
       IN /\ op \in (InstructionType.Load0 .. InstructionType.Load5) \cup
                    {InstructionType.Pop, InstructionType.Dup} =>
               bufferPtr' = bufferPtr + 1
          /\ op = InstructionType.Add => bufferPtr' = bufferPtr + 1 + 2
          /\ op \in {InstructionType.InitList, InstructionType.InitTup} =>
               bufferPtr' = bufferPtr + 1 + 4]_vars

\* C11: Jmp moves the program counter to off bytes after the end of its u32
\* operand; Jz pops one value and does the same when the value is falsey,
\* Jnz when it is truthy; a jump that is not taken continues at the byte
\* after the operand, one value popped all the same.
C11_Jumps ==
  [][(status = "running" /\ status' = "running") =>
       LET op == buffer[bufferPtr + 1]
           off == readUInt32(bufferPtr + 1)
           afterOperand == bufferPtr + 1 + 4
       IN /\ op = InstructionType.Jmp => bufferPtr' = afterOperand + off
          /\ op = InstructionType.Jz =>
               /\ stack' = SubSeq(stack, 1, Len(stack) - 1)
               /\ bufferPtr' = IF truthy(stack[Len(stack)])
                               THEN afterOperand ELSE afterOperand + off
          /\ op = InstructionType.Jnz =>
               /\ stack' = SubSeq(stack, 1, Len(stack) - 1)
               /\ bufferPtr' = IF truthy(stack[Len(stack)])
                               THEN afterOperand + off ELSE afterOperand]_vars

\* C12: CallFn with n arguments takes the callable from position
\* len - n - 1 of the stack, the slot just below the n arguments, and a call
\* that goes on makes that position the frame base; for every n, 0 and 1
\* included.
C12_CallableSlot ==
  [][Fetch({InstructionType.CallFn}) =>
       LET n == readUInt16(bufferPtr + 1)
           slot == Len(stack) - n - 1
       IN /\ fromLast(n - 1) = slot
          /\ status' = "running" => from' = slot]_vars

\* The CallFn about to execute has, in its callable slot, a Function whose
\* arity is its argument count.
CallableReady ==
  /\ Fetch({InstructionType.CallFn})
  /\ LET n == readUInt16(bufferPtr + 1)
         slot == Len(stack) - n - 1
     IN /\ slot >= 0
        /\ holdsObject(stack[slot + 1])
        /\ kind[stack[slot + 1].v] = "Function"
        /\ arity[stack[slot + 1].v] = n

\* The RetFn about to execute has a frame to return to.
ReturnReady == Fetch({InstructionType.RetFn}) /\ callframes # <<>>

\* The offset of the byte that follows the operands of the CallFn of
\* CallImage: that of its Halt.
ReturnAddress == Len(CallImage) - 1

\* C13: a CallFn on a Function of the right arity pushes a frame whose
\* return address is the offset just after its u16 operands, and a RetFn
\* resumes at the return address of the frame it pops.  So in the run of
\* "f(); halt" the one frame holds the offset of Halt, and the run ends at
\* Halt with no frame left, never in an error.
C13_CallAndReturn ==
  /\ [][CallableReady =>
          /\ status' = "running"
          /\ callframes' = Append(callframes, [retAddr |-> bufferPtr + 1 + 4,
                                               prevFrom |-> from])]_vars
  /\ [][ReturnReady =>
          bufferPtr' = callframes[Len(callframes)].retAddr]_vars
  /\ [](buffer = CallImage =>
          /\ status \in {"running", "halted"}
          /\ Len(callframes) <= 1
          /\ callframes # <<>> => callframes[1].retAddr = ReturnAddress
          /\ status = "halted" => bufferPtr = Len(buffer) /\ callframes = <<>>)

\* C14: a CallFn adds one frame that keeps the frame base of the caller,
\* and a RetFn removes the last frame and makes the frame base the one it
\* kept.  So in the run of the image with a call inside a call at most two
\* frames are active, the frame base is that of the start whenever no frame
\* is, and the run ends at Halt with no frame left.
C14_Balanced ==
  /\ [][CallableReady =>
          /\ Len(callframes') = Len(callframes) + 1
          /\ SubSeq(callframes', 1, Len(callframes)) = callframes
          /\ callframes'[Len(callframes')].prevFrom = from]_vars
  /\ [][ReturnReady =>
          /\ callframes' = SubSeq(callframes, 1, Len(callframes) - 1)
          /\ from' = callframes[Len(callframes)].prevFrom]_vars
  /\ [](buffer = NestedCallImage =>
          /\ status \in {"running", "halted"}
          /\ Len(callframes) <= 2
          /\ callframes = <<>> => from = 0
          /\ status = "halted" => callframes = <<>>)

\* C15: CallFn and RetFn leave the value stack as it is, and NipN k keeps
\* the top and drops the k values under it.  So the run of "f(2); halt"
\* ends at Halt with the value f returned, 3, as the only value of the
\* stack: the height before the callable was pushed, plus 1.
C15_ReturnValue ==
  /\ [][CallableReady => status' = "running" /\ stack' = stack]_vars
  /\ [][ReturnReady => status' = "running" /\ stack' = stack]_vars
  /\ [][(/\ Fetch({InstructionType.NipN})
         /\ Len(stack) >= readUInt8(bufferPtr + 1) + 1) =>
          stack' = Append(SubSeq(stack, 1, Len(stack) - 1
                                           - readUInt8(bufferPtr + 1)),
                          stack[Len(stack)])]_vars
  /\ [](buffer = ArgumentCallImage =>
          /\ status \in {"running", "halted"}
          /\ status = "halted" => stack = <<IntV(3)>>)

C17_NotCallable ==
  [][Fetch({InstructionType.CallFn}) =>
       LET n == readUInt16(bufferPtr + 1)
           slot == Len(stack) - n - 1
           callable == stack[slot + 1]
       IN (/\ slot >= 0
           /\ ~(/\ holdsObject(callable)
                /\ kind[callable.v] = "Function"
                /\ arity[callable.v] = n)) =>
            /\ status' = "exited"
            /\ callframes' = callframes
            /\ from' = from]_vars

\* The two Values a comparison is about to pop are Integers.
IntegerOperands ==
  /\ status = "running"
  /\ Len(stack) >= 2
  /\ stack[Len(stack)].t = "int"
  /\ stack[Len(stack) - 1].t = "int"

\* C18: GT on two Integers, right popped first, pushes the Bool
\* left > right: false for equal operands and for left < right.
C18_StrictGreater ==
  [][(IntegerOperands /\ Fetch({InstructionType.GT})) =>
       LET right == stack[Len(stack)]
           left == stack[Len(stack) - 1]
       IN /\ status' = "running"
          /\ stack' = Append(SubSeq(stack, 1, Len(stack) - 2),
                             BoolV(left.v > right.v))]_vars

\* C19: on one pair of Integer operands Eq and NEq give opposite results,
\* GTE gives false when LT gives true, and LTE gives false when GT gives
\* true.
C19_Consistent ==
  IntegerOperands =>
    LET right == stack[Len(stack)]
        left == stack[Len(stack) - 1]
        result(instType) == perform(instType, left, right).val
    IN /\ result(InstructionType.Eq) # result(InstructionType.NEq)
       /\ result(InstructionType.LT) = BoolV(TRUE) =>
            result(InstructionType.GTE) = BoolV(FALSE)
       /\ result(InstructionType.GT) = BoolV(TRUE) =>
            result(InstructionType.LTE) = BoolV(FALSE)

\* C20: Eq on a pair with an Empty on either side pushes true and never
\* ends in the fatal error.
C20_EmptyWildcard ==
  [][(/\ Fetch({InstructionType.Eq})
      /\ Len(stack) >= 2
      /\ EmptyV \in {stack[Len(stack)], stack[Len(stack) - 1]}) =>
       /\ status' = "running"
       /\ stack' = Append(SubSeq(stack, 1, Len(stack) - 2), BoolV(TRUE))]_vars

\* Two heap objects of the kind k, as the two operands of a comparison.
SameKindOperands(k) ==
  /\ Len(stack) >= 2
  /\ holdsObject(stack[Len(stack)])
  /\ holdsObject(stack[Len(stack) - 1])
  /\ kind[stack[Len(stack)].v] = k
  /\ kind[stack[Len(stack) - 1].v] = k

\* C21: Eq on two Atom objects, or on two String objects, compares their
\* bytes and not their identities: it pushes true for two objects with the
\* same bytes, false for different bytes, and goes on.
C21_ContentEquality ==
  [][Fetch({InstructionType.Eq})
       /\ (SameKindOperands("String") \/ SameKindOperands("Atom"))
     => /\ status' = "running"
        /\ stack' = Append(SubSeq(stack, 1, Len(stack) - 2),
                           BoolV(value[stack[Len(stack) - 1].v]
                                   = value[stack[Len(stack)].v]))]_vars

C23_Negate ==
  [][Fetch({InstructionType.Negate}) /\ Len(stack) >= 1
     => IF stack[Len(stack)].t = "int"
        THEN /\ status' = "running"
             /\ stack' = [stack EXCEPT
                            ![Len(stack)] = IntV(0 - stack[Len(stack)].v)]
        ELSE status' = "exited"]_vars

\* The object on top of the stack after the step, and the operands of the
\* collection instructions.
ListOrTuple(val) == holdsObject(val) /\ kind[val.v] \in {"List", "Tuple"}

\* C24: InitList N and InitTup N build a collection whose element i is the
\* (i+1)-th Value that was pushed: the first one pushed is element 0.
C24_PushOrder ==
  [][Fetch({InstructionType.InitList, InstructionType.InitTup})
       /\ Len(stack) >= readUInt32(bufferPtr + 1)
     => LET length == readUInt32(bufferPtr + 1)
        IN /\ status' = "running"
           /\ Len(stack') = Len(stack) - length + 1
           /\ holdsObject(stack'[Len(stack')])
           /\ elems'[stack'[Len(stack')].v]
                = SubSeq(stack, Len(stack) - length + 1, Len(stack))]_vars

\* C25: IdxListOrTup on a list or tuple of length n pushes element idx for
\* 0 <= idx < n and element n + idx for -n <= idx < 0, and ends in the fatal
\* error "Index out of range" for any other idx.
C25_Index ==
  [][Fetch({InstructionType.IdxListOrTup})
       /\ Len(stack) >= 1
       /\ ListOrTuple(stack[Len(stack)])
     => LET values == elems[stack[Len(stack)].v]
            n == Len(values)
            idx == readInteger(bufferPtr + 1)
            rest == SubSeq(stack, 1, Len(stack) - 1)
        IN IF 0 <= idx /\ idx < n
           THEN status' = "running" /\ stack' = Append(rest, values[idx + 1])
           ELSE IF 0 - n <= idx /\ idx < 0
           THEN status' = "running"
                  /\ stack' = Append(rest, values[n + idx + 1])
           ELSE status' = "exited"
                  /\ diagnostic'.msg = "Index out of range"]_vars

\* C26: SetList stores in place: the list object that every reference
\* points to has the new Value at the index afterwards, its other elements
\* and its length are as before, and exactly the new Value and the
\* container are popped.
C26_StoreInPlace ==
  [][Fetch({InstructionType.SetList})
       /\ Len(stack) >= 2
       /\ holdsObject(stack[Len(stack) - 1])
       /\ kind[stack[Len(stack) - 1].v] = "List"
       /\ readInteger(bufferPtr + 1) < Len(elems[stack[Len(stack) - 1].v])
     => LET o == stack[Len(stack) - 1].v
            idx == readInteger(bufferPtr + 1)
        IN /\ status' = "running"
           /\ stack' = SubSeq(stack, 1, Len(stack) - 2)
           /\ elems' = [elems EXCEPT ![o][idx + 1] = stack[Len(stack)]]]_vars

\* C27: SetMember of key k and Value v on a table stores v under k in the
\* table object every reference shares, the other keys keep their Values,
\* and a GetMember of k through any reference then pushes v; GetMember of
\* a key the table does not have ends in the fatal error and pushes
\* nothing.
C27_Members ==
  /\ [][Fetch({InstructionType.SetMember})
          /\ Len(stack) >= 2
          /\ holdsObject(stack[Len(stack) - 1])
          /\ kind[stack[Len(stack) - 1].v] = "Table"
        => LET o == stack[Len(stack) - 1].v
               key == readShortString(bufferPtr + 1)
           IN /\ status' = "running"
              /\ stack' = SubSeq(stack, 1, Len(stack) - 2)
              /\ key \in Range(value'[o])
              /\ member(elems'[o], value'[o], key) = stack[Len(stack)]
              /\ \A k \in Range(value[o]) \ {key} :
                   /\ k \in Range(value'[o])
                   /\ member(elems'[o], value'[o], k)
                        = member(elems[o], value[o], k)]_vars
  /\ [][Fetch({InstructionType.GetMember})
          /\ Len(stack) >= 1
          /\ holdsObject(stack[Len(stack)])
          /\ kind[stack[Len(stack)].v] = "Table"
        => LET o == stack[Len(stack)].v
               key == readShortString(bufferPtr + 1)
               rest == SubSeq(stack, 1, Len(stack) - 1)
           IN IF key \in Range(value[o])
              THEN /\ status' = "running"
                   /\ stack' = Append(rest, member(elems[o], value[o], key))
              ELSE status' = "exited" /\ stack' = rest]_vars

C29_FatalIsTerminal ==
  /\ [][diagnostic' # diagnostic => status' = "exited"]_vars
  /\ [][status # "exited"]_vars
  /\ [](status = "exited" => diagnostic # NoDiagnostic)
  /\ [][status' = "halted"
        => Fetch({InstructionType.Halt}) /\ diagnostic' = NoDiagnostic]_vars

\* C29 witness: a run that ended in throwError with Values on the stack
\* and objects on the heap.
C29_Witness ==
  /\ status = "exited"
  /\ diagnostic # NoDiagnostic
  /\ stack # <<>>
  /\ \E o \in ObjIds : kind[o] # "none"

\* The layout of an image b: a little-endian u16 at offset p, the count of
\* the error-info table after the 4 bytes of the magic and the 3 bytes of
\* the version, and the offset after n records that start at p.
u16(b, p) == b[p + 1] + 256 * b[p + 2]

TableCount(b) == u16(b, 7)

RECURSIVE skipRecords(_, _, _)
skipRecords(b, p, n) ==
  IF n = 0 THEN p ELSE skipRecords(b, p + 4 + u16(b, p + 2), n - 1)

CodeStart(b) == skipRecords(b, 9, TableCount(b))

\* C30: loading follows the layout magic, version, error-info table, code.
\* The magic of 4 bytes is validated first: a mismatch is fatal before any
\* error-info record is read, and an image with the right magic is not
\* refused for it.  The table is read from the bytes after the version of
\* 3 bytes, and the first opcode executed is the byte after the last
\* record.
C30_LoadOrder ==
  /\ errorInfoList # <<>> => SubSeq(buffer, 1, 4) = MAGIC_NUMBER
  /\ diagnostic.msg = "Invalid Magic number"
       => SubSeq(buffer, 1, 4) # MAGIC_NUMBER
  /\ status = "running"
       => /\ Len(errorInfoList) = TableCount(buffer)
          /\ bufferPtr = CodeStart(buffer)

\* The variant of a Value record with the tag byte tag, and the bytes of
\* its payload when their number is fixed.
VariantOf(tag) ==
  CASE tag = 0 -> "int" [] tag = 2 -> "bool" [] tag = 3 -> "empty"
    [] tag \in {4, 5, 6} -> "obj" [] OTHER -> "none"

PayloadBytes(tag) == CASE tag = 0 -> 4 [] tag = 2 -> 1 [] tag = 3 -> 0

\* C31: decoding the Value record of a Load maps the tag to its variant
\* (0 Integer, 2 Bool, 3 Empty, 4 String, 5 Atom, 6 Function; a Bool is true
\* for the payload byte 1 only), consumes exactly the tag and the payload
\* of the variant, so that the next opcode is the byte after the payload,
\* and ends in the fatal error for a tag above 6.
C31_ValueRecord ==
  [][Fetch({InstructionType.Load}) /\ readUInt8(bufferPtr + 1) # 1
     => LET tag == readUInt8(bufferPtr + 1)
        IN IF tag > 6 THEN status' = "exited" /\ stack' = stack
           ELSE /\ status' = "running"
                /\ stack' # <<>>
                /\ stack'[Len(stack')].t = VariantOf(tag)
                /\ tag = 2 => stack'[Len(stack')].v
                                = (IF buffer[bufferPtr + 3] = 1 THEN 1 ELSE 0)
                /\ tag \in {0, 2, 3}
                     => bufferPtr' = bufferPtr + 2 + PayloadBytes(tag)]_vars

\* The 8 bytes of the 32-bit two's complement number b0 b1 b2 b3 (least
\* significant first) sign-extended to 64 bits.
signExtended(b0, b1, b2, b3) ==
  LET fill == IF b3 >= 128 THEN 255 ELSE 0
  IN <<b0, b1, b2, b3, fill, fill, fill, fill>>

\* C32: an encoded Integer is decoded from its 4 little-endian bytes as a
\* signed 32-bit number sign-extended to 64 bits: FF FF FF FF is -1, and
\* every pattern with the top bit of the fourth byte set is negative.
C32_SignExtension ==
  [][Fetch({InstructionType.Load}) /\ readUInt8(bufferPtr + 1) = 0
     => /\ status' = "running"
        /\ stack' = Append(stack,
                           [t |-> "int",
                            v |-> signExtended(buffer[bufferPtr + 3],
                                               buffer[bufferPtr + 4],
                                               buffer[bufferPtr + 5],
                                               buffer[bufferPtr + 6])])]_vars

\* C33: readUInt32 returns b0 + 256*b1 + 65536*b2 + 16777216*b3 for the
\* four bytes at the cursor and moves the cursor by 4 (the instruction
\* after an InitList is the byte after its length); readUInt16 returns
\* b0 + 256*b1 and moves the cursor by 2.
C33_LittleEndian ==
  /\ [][Fetch({InstructionType.InitList}) /\ buffer[bufferPtr + 5] < 128
        => LET p == bufferPtr + 1
           IN /\ readUInt32(p)
                   = buffer[p + 1] + 256 * buffer[p + 2]
                       + 65536 * buffer[p + 3] + 16777216 * buffer[p + 4]
              /\ status' = "running" => bufferPtr' = p + 4]_vars
  /\ [][Fetch({InstructionType.GetGlobal})
        => LET p == bufferPtr + 1
           IN readUInt16(p) = buffer[p + 1] + 256 * buffer[p + 2]]_vars

\* C34: every execution on a finite image stops in the Halt state or in the
\* fatal error state: the run is never anywhere else than in the loop, in
\* Halt or in the fatal error, the program counter only moves forward, and
\* running past the end of the code is fatal.
C34_Stops ==
  /\ [][bufferPtr' >= bufferPtr]_vars
  /\ [][status = "running" /\ bufferPtr >= Len(buffer)
        => status' = "exited"]_vars
  /\ [](status \in {"running", "halted", "exited"})

C36_DestroyedBySweepOnly ==
  /\ [][~crashed' =>
         \A c \in freed' \ freed :
           (kind[c] = "Closure" /\ elems[c] # <<>>) =>
             LET function == elems[c][1].v
             IN function \in freed' \ freed =>
                  function \notin Range(nursery') \cup Range(retirementHome')]_vars
  /\ [](~crashed =>
         \A o \in Range(nursery) \cup Range(retirementHome) : o \notin freed)

\* C37: no instruction reads or writes the value stack outside its live
\* range: an instruction that pops more values than the stack holds, or
\* whose slot (GetLocal, the callee of CallFn) is not a position below the
\* stack length, ends in the fatal error instead of making the access.
C37_StackAccessInRange ==
  [][(status = "running" /\ bufferPtr < Len(buffer)) =>
       LET op == buffer[bufferPtr + 1]
           outside ==
             \/ op = InstructionType.NipN
                  /\ Len(stack) < readUInt8(bufferPtr + 1) + 1
             \/ op = InstructionType.GetLocal
                  /\ ~inStack(atIndex(readUInt16(bufferPtr + 1)))
             \/ op = InstructionType.CallFn
                  /\ ~inStack(fromLast(readUInt16(bufferPtr + 1) - 1))
       IN outside => status' = "exited"]_vars

\* C38: free_gc terminates on every heap (every iteration of its loop
\* moves to another node, and it executes no undefined behaviour), and
\* when it has returned every object of the two generation lists has been
\* destroyed exactly once.
C38_FreeGcFreesAll ==
  /\ [][(pc = "while" /\ pc' = "while") => current_node' # current_node]_vars
  /\ [](pc # "undefined")
  /\ [](pc = "returned" =>
          \A o \in Range(gc.nursery_list) \cup Range(gc.nursing_home_list) :
            freeCalls[o] = 1)

\* The keys hm_include finds in the table h.
included(h, d) == {key \in Keys : hm_include(h, d, key).ret}

\* C39: after any sequence of hm_set calls, growth included, hm_get(k)
\* returns the value of the last hm_set for k and NULL for a key never
\* set, hm_include(k) is true exactly for the keys that were set, len is
\* the number of distinct keys set, and len < cap, so that every probe
\* loop ends.  Step by step: a hm_set(k, v) makes k included with value
\* v, adds 1 to len when k is new, and changes the answer for no other
\* key; hm_get and hm_include change nothing; the new table is empty.
C39_MapHoldsLastValues ==
  /\ [][(ret'.op = "hm_set" /\ pc' = "ready") =>
         /\ ret'.ret = ret'.key
         /\ hm_get(hm', freedKeys', ret'.key).ret = ret'.value
         /\ included(hm', freedKeys') = included(hm, freedKeys) \cup {ret'.key}
         /\ hm'.len = Cardinality(included(hm', freedKeys'))
         /\ \A key \in Keys \ {ret'.key} :
              hm_get(hm', freedKeys', key) = hm_get(hm, freedKeys, key)]_vars
  /\ [][ret'.op \in {"hm_get", "hm_include"} =>
         /\ hm' = hm
         /\ ret'.op = "hm_get" => ret'.ret = hm_get(hm, freedKeys, ret'.key).ret
         /\ ret'.op = "hm_include" =>
              ret'.ret = (ret'.key \in included(hm, freedKeys))]_vars
  /\ [](/\ pc = "ready"
        /\ hm.len < hm.cap
        /\ hm.len = Cardinality(included(hm, freedKeys))
        /\ \A key \in Keys :
             /\ hm_include(hm, freedKeys, key).state = "ok"
             /\ key \notin included(hm, freedKeys) =>
                  hm_get(hm, freedKeys, key).ret = NULL
        /\ ret.op = "hm_init" => included(hm, freedKeys) = {})

\* C39, witness: the table has grown, a key sits in a slot after the one
\* its probe starts at, and hm_get has just returned, for a key that was
\* set in the table of 8 slots on top of the key it collides with, the
\* value of its second hm_set.
C39_Witness ==
  /\ pc = "ready"
  /\ hm.cap = 2 * INITIAL_HM_CAP
  /\ hm.len = MaxKeys
  /\ ret.op = "hm_get"
  /\ ret.ret = 2
  /\ LET r == find(hm.entries, freedKeys, ret.key)
     IN /\ r.state = "found"
        /\ r.idx # BitAnd(hash_key(ret.key), hm.cap - 1)

\* C40: hm_pop(k) on a key that is present returns its value and removes
\* the entry: afterwards hm_include(k) is false, hm_get(k) is NULL, len is
\* one less, and every other key is found with its value as before; on a
\* key that is absent it returns NULL and leaves the map as it was.
C40_PopRemoves ==
  [][(ret'.op = "hm_pop" /\ pc = "ready" /\ pc' = "ready") =>
       LET key == ret'.key
           before == hm_get(hm, freedKeys, key)
       IN IF hm_include(hm, freedKeys, key).ret
          THEN /\ ret'.ret = before.ret
               /\ hm_include(hm', freedKeys', key)
                    = [state |-> "ok", ret |-> FALSE]
               /\ hm_get(hm', freedKeys', key) = [state |-> "ok", ret |-> NULL]
               /\ hm'.len = hm.len - 1
               /\ \A other \in Keys \ {key} :
                    hm_get(hm', freedKeys', other) = hm_get(hm, freedKeys, other)
          ELSE /\ ret'.ret = NULL
               /\ hm' = hm
               /\ freedKeys' = freedKeys]_vars

====
